---- MODULE Spec2Model ----
(***************************************************************************)
(* Persistent account storage of the Cadence runtime: the Storage facade   *)
(* (runtime/storage.go), the account storage layers V1 and V2, the domain  *)
(* register migration and the slab store's delta buffer over the ledger.   *)
(***************************************************************************)
EXTENDS Integers, Sequences, FiniteSets, TLC

(***************************************************************************)
(* Values and bounds                                                       *)
(***************************************************************************)

\* The absent value of a storage map key.
None == "none"

\* The nil contract value (a recorded contract removal).
Nil == "nil"

AccountStorageKey == "stored"

\* The absent slab index (slab indices start at 1) and the nil map pointer.
NoIndex == 0

NoSlab == <<0, 0>>

\* The address of the slabs of values that are not stored in an account.
TempAddress == 0

storageFormatUnknown == "unknown"

storageFormatNew == "new"

storageFormatV1 == "v1"

StorageFormatV2 == "v2"

\* No storage format was computed by the call (cache hit, or V2 disabled).
NoFormat == "noformat"

StorageDomainContract == "contract"

\* The enumerated domains, in the order in which they are probed.
AllStorageDomains == <<"storage", "contract">>

Domains == {AllStorageDomains[i] : i \in DOMAIN AllStorageDomains}

Addresses == {1, 2}

\* Contract names and storage map keys.
Names == {"C1"}

\* Non-nil stored values.
Values == {"V1"}

\* The number of Encode calls made on one encoder.
MaxEncodes == 2

\* The length the list of scheduled migrations may reach.
MaxScheduled == 2

\* The number of slabs allocated for the account storage map under test and
\* its domain storage maps.
MaxSlabs == 5

\* The workers of the slab flush (one per logical CPU of the host).
Workers == {"w1", "w2"}

\* No slab flush is under way.
NoFlush ==
    [stage |-> "idle", jobs |-> <<>>, taken |-> 0,
     pc |-> [w \in Workers |-> NoSlab], encoded |-> <<>>, writes |-> <<>>,
     expect |-> <<>>]

\* An encoder that has written nothing.
NoEncoder == [buf |-> <<>>, calls |-> 0]

\* No iterator of an account storage map is in use.
NoIterator == [open |-> FALSE, rest |-> <<>>, yielded |-> <<>>]

\* No step of the commit fails: every ledger and slab store call succeeds.
NoFailure == ""

\* The steps of a commit that may return an error: the V1 layer's commit,
\* the V2 layer's commit, the i-th call of the account migrator and the
\* slab flush.
Failures == {"v1", "v2", "migrate1", "migrate2", "flush"}

VARIABLES
    registers,                \* ledger: address -> register key -> slab index or NoIndex
    ledgerSlabs,              \* ledger: slab ID -> encoded slab (slab registers)
    nextIndex,                \* ledger: address -> next slab index to allocate
    deltas,                   \* PersistentSlabStorage: dirty slabs, slab ID -> slab
    cachedDomainStorageMaps,  \* Storage.cachedDomainStorageMaps
    cachedV1Accounts,         \* Storage.cachedV1Accounts
    contractUpdates,          \* Storage.contractUpdates (ordered map)
    scheduledV2Migrations,    \* Storage.scheduledV2Migrations
    StorageFormatV2Enabled,   \* Storage.Config.StorageFormatV2Enabled
    cachedAccountStorageMaps, \* AccountStorageV2: address -> account map root
    slabCache,                \* PersistentSlabStorage: IDs of the slabs read or flushed
    flush,                    \* PersistentSlabStorage.FastCommit: jobs, workers, writes
    iterator,                 \* AccountStorageMapIterator: the domains still to yield
    encoder,                  \* atree.Encoder: the bytes written, the Encode calls made
    last,                     \* the last operation and what it observably did
    tx                        \* what happened since the facade was created

vars == <<registers, ledgerSlabs, nextIndex, deltas, cachedDomainStorageMaps,
          cachedV1Accounts, contractUpdates, scheduledV2Migrations,
          StorageFormatV2Enabled, cachedAccountStorageMaps, slabCache, flush,
          iterator, encoder, last, tx>>

(***************************************************************************)
(* Helpers on finite maps and sequences                                    *)
(***************************************************************************)

EmptyMap == [x \in {} |-> None]

Put(f, k, v) == [x \in (DOMAIN f) \cup {k} |-> IF x = k THEN v ELSE f[x]]

Del(f, k) == [x \in (DOMAIN f) \ {k} |-> f[x]]

Lookup(f, k) == IF k \in DOMAIN f THEN f[k] ELSE None

LookupSlab(f, k) == IF k \in DOMAIN f THEN f[k] ELSE NoSlab

LookupIndex(f, k) == IF k \in DOMAIN f THEN f[k] ELSE NoIndex

RECURSIVE SortedSeq(_)
\* The elements of a finite set of integers in ascending order.
SortedSeq(S) ==
    IF S = {} THEN <<>>
    ELSE LET m == CHOOSE x \in S : \A y \in S : x <= y
         IN <<m>> \o SortedSeq(S \ {m})

RECURSIVE InsertSorted(_, _)
InsertSorted(x, seq) ==
    IF seq = <<>> THEN <<x>>
    ELSE IF x < Head(seq) THEN <<x>> \o seq
    ELSE <<Head(seq)>> \o InsertSorted(x, Tail(seq))

RECURSIVE SortAddresses(_)
\* sort.Slice by Address.Compare: ascending, duplicates kept.
SortAddresses(seq) ==
    IF seq = <<>> THEN <<>>
    ELSE InsertSorted(Head(seq), SortAddresses(Tail(seq)))

(***************************************************************************)
(* The state as one record, so that a handler is a function of states      *)
(***************************************************************************)

St ==
    [reg |-> registers, slabs |-> ledgerSlabs, next |-> nextIndex,
     deltas |-> deltas, cdm |-> cachedDomainStorageMaps,
     cv1 |-> cachedV1Accounts, cu |-> contractUpdates,
     sched |-> scheduledV2Migrations, v2 |-> StorageFormatV2Enabled,
     cam |-> cachedAccountStorageMaps, cache |-> slabCache, log |-> <<>>,
     panic |-> FALSE, fail |-> NoFailure]

\* Ledger.GetValue of register (a, key), logged.
ReadReg(s, a, key) == [s EXCEPT !.log = Append(@, <<"read", a, key, 0>>)]

\* Ledger.SetValue of register (a, key), logged.
WriteReg(s, a, key, v) ==
    [s EXCEPT !.reg[a][key] = v, !.log = Append(@, <<"write", a, key, v>>)]

\* PersistentSlabStorage.Store: to the delta buffer only.
StoreSlab(s, id, slab) == [s EXCEPT !.deltas = Put(@, id, slab)]

\* PersistentSlabStorage.Retrieve: the delta buffer first, else the ledger.
LoadSlab(s, id) ==
    IF id \in DOMAIN s.deltas THEN s.deltas[id] ELSE s.slabs[id]

\* PersistentSlabStorage.Retrieve of a slab that a register points at: a
\* slab read from the ledger is kept in the read cache.
Retrieve(s, id) ==
    IF id \in DOMAIN s.deltas THEN s ELSE [s EXCEPT !.cache = @ \cup {id}]

\* PersistentSlabStorage.GenerateSlabID: a fresh index of the address.
NewSlabID(s, a) == <<a, s.next[a]>>

AllocateSlab(s, a, slab) ==
    [StoreSlab(s, NewSlabID(s, a), slab) EXCEPT !.next[a] = @ + 1]

\* A new domain storage map: no entries; large holds, for the keys whose
\* value is too large to be stored inline, the index of the value's slab.
EmptyDomainMap == [kind |-> "domain", entries |-> EmptyMap, large |-> EmptyMap]

\* The slab of a value that is stored in its own slab, and what the entry
\* of the domain storage map holds for it.
LargeValueSlab == [kind |-> "value"]

LargeValue == "large"

\* A new account storage map: an atree map without elements.
EmptyAccountMap == [kind |-> "account", domains |-> EmptyMap, count |-> 0]

\* Variant of atree OrderedMap.Set: the count grows also when the key had
\* an element.
AtreeMapSet_AlwaysCounted(slab, d, index) ==
    [slab EXCEPT !.domains = Put(@, d, index), !.count = @ + 1]

\* atree OrderedMap.Set on the account map: the element of key d is set;
\* the count of the map grows when the key had no element.
AtreeMapSet(slab, d, index) ==
    [slab EXCEPT !.domains = Put(@, d, index),
                 !.count = IF d \in DOMAIN slab.domains THEN @ ELSE @ + 1]

\* atree OrderedMap.Remove on the account map.
AtreeMapRemove(slab, d) ==
    IF d \in DOMAIN slab.domains
    THEN [slab EXCEPT !.domains = Del(@, d), !.count = @ - 1]
    ELSE slab

\* PersistentSlabStorage.HasUnsavedChanges
HasUnsavedChanges(s, a) == \E id \in DOMAIN s.deltas : id[1] = a

(***************************************************************************)
(* Domain storage maps over the slab store                                 *)
(***************************************************************************)

\* DomainStorageMap.ReadValue
ReadValue(s, mapID, k) == Lookup(LoadSlab(s, mapID).entries, k)

\* The value a fresh reader finds in the ledger under key k of the map.
LedgerValue(s, mapID, k) ==
    IF mapID \in DOMAIN s.slabs THEN Lookup(s.slabs[mapID].entries, k)
    ELSE None

WriteEntry(s, mapID, slab, k, v) ==
    IF v = Nil
    THEN IF k \in DOMAIN slab.entries
         THEN StoreSlab(s, mapID, [slab EXCEPT !.entries = Del(@, k)])
         ELSE s
    ELSE StoreSlab(s, mapID, [slab EXCEPT !.entries = Put(@, k, v)])

\* DomainStorageMap.WriteValue: a nil value removes the key; removing an
\* absent key changes no slab.
WriteValue(s, mapID, k, v) == WriteEntry(s, mapID, LoadSlab(s, mapID), k, v)

\* PersistentSlabStorage.Remove of slabs that are not in the ledger yet.
RemoveSlabs(s, ids) ==
    [s EXCEPT !.deltas = [id \in (DOMAIN @) \ ids |-> @[id]]]

\* The slabs of the values of a domain storage map that are stored in
\* their own slabs.
ValueSlabIDs(slab, a) == {<<a, slab.large[k]>> : k \in DOMAIN slab.large}

\* DomainStorageMap.WriteValue over a key whose value may be stored in its
\* own slab: the slab of the value that was there is removed.
WriteValueOver(s, a, mapID, k, v) ==
    IF k \in DOMAIN LoadSlab(s, mapID).large
    THEN WriteValue(
             StoreSlab(RemoveSlabs(s, {<<a, LoadSlab(s, mapID).large[k]>>}),
                       mapID,
                       [LoadSlab(s, mapID) EXCEPT !.large = Del(@, k)]),
             mapID, k, v)
    ELSE WriteValue(s, mapID, k, v)

StoreLargeValue(s, a, mapID, k, id) ==
    StoreSlab(AllocateSlab(s, a, LargeValueSlab), mapID,
              [LoadSlab(s, mapID) EXCEPT !.large = Put(@, k, id[2])])

\* DomainStorageMap.WriteValue of a value too large to be stored inline:
\* the value gets a slab of its own, which the map refers to.
WriteLargeValue(s, a, mapID, k) ==
    StoreLargeValue(WriteValueOver(s, a, mapID, k, LargeValue), a, mapID, k,
                    NewSlabID(s, a))

(***************************************************************************)
(* Account storage V1: one register per (address, domain)                  *)
(***************************************************************************)

\* getDomainStorageMapFromV1DomainRegister: the root slab ID held by the
\* domain register, or nil.
getDomainStorageMapFromV1DomainRegister(s, a, d) ==
    IF s.reg[a][d] = NoIndex THEN NoSlab ELSE <<a, s.reg[a][d]>>

\* AccountStorageV1: a new domain storage map; its root slab index is
\* written to the domain register.
storeNewDomainStorageMap(s, a, d, id) ==
    [s |-> WriteReg(AllocateSlab(s, a, EmptyDomainMap), a, d, id[2]),
     result |-> id]

\* Variant of AccountStorageV1.GetDomainStorageMap: a missing domain storage
\* map is created whatever createIfNotExists is.
V1GetDomainStorageMap_AlwaysCreate(s, a, d, createIfNotExists) ==
    IF s.reg[a][d] # NoIndex
    THEN [s |-> Retrieve(ReadReg(s, a, d), <<a, s.reg[a][d]>>),
          result |-> getDomainStorageMapFromV1DomainRegister(s, a, d)]
    ELSE storeNewDomainStorageMap(ReadReg(s, a, d), a, d, NewSlabID(s, a))

\* AccountStorageV1.GetDomainStorageMap: reads the register; if absent and
\* createIfNotExists, allocates a fresh root slab and writes its index to
\* the register.
V1GetDomainStorageMap(s, a, d, createIfNotExists) ==
    IF s.reg[a][d] # NoIndex
    THEN [s |-> Retrieve(ReadReg(s, a, d), <<a, s.reg[a][d]>>),
          result |-> getDomainStorageMapFromV1DomainRegister(s, a, d)]
    ELSE IF createIfNotExists
    THEN storeNewDomainStorageMap(ReadReg(s, a, d), a, d, NewSlabID(s, a))
    ELSE [s |-> ReadReg(s, a, d), result |-> NoSlab]

\* AccountStorageV1.commit: nothing beyond what the slab store does.
V1Commit(s) == s

(***************************************************************************)
(* Account storage V2: the "stored" register holds the account map root    *)
(***************************************************************************)

\* AccountStorageV2.cacheAccountStorageMap
cacheAccountStorageMap(s, a, accountStorageMap) ==
    [s EXCEPT !.cam = Put(@, a, accountStorageMap)]

\* AccountStorageV2.getAccountStorageMap: the cached account map, else the
\* one the "stored" register points at (cached when found).
getAccountStorageMap(s, a) ==
    IF LookupSlab(s.cam, a) # NoSlab THEN [s |-> s, result |-> s.cam[a]]
    ELSE IF s.reg[a][AccountStorageKey] = NoIndex
    THEN [s |-> ReadReg(s, a, AccountStorageKey), result |-> NoSlab]
    ELSE [s |-> cacheAccountStorageMap(
                    Retrieve(ReadReg(s, a, AccountStorageKey),
                             <<a, s.reg[a][AccountStorageKey]>>),
                    a, <<a, s.reg[a][AccountStorageKey]>>),
          result |-> <<a, s.reg[a][AccountStorageKey]>>]

\* AccountStorageMap.NewDomain: a new empty domain storage map with slab ID
\* id is inserted into the account map am.
AccountMapNewDomain(s, a, am, d, id) ==
    [s |-> StoreSlab(AllocateSlab(s, a, EmptyDomainMap), am,
                     AtreeMapSet(LoadSlab(s, am), d, id[2])),
     result |-> id]

\* Variant of AccountStorageMap.GetDomain: a missing domain is never created.
AccountMapGetDomain_NeverCreate(s, a, am, d, createIfNotExists) ==
    IF LookupIndex(LoadSlab(s, am).domains, d) # NoIndex
    THEN [s |-> s, result |-> <<a, LoadSlab(s, am).domains[d]>>]
    ELSE [s |-> s, result |-> NoSlab]

\* AccountStorageMap.GetDomain: the domain's map, inserting a new empty one
\* on a miss when createIfNotExists.
AccountMapGetDomain(s, a, am, d, createIfNotExists) ==
    IF LookupIndex(LoadSlab(s, am).domains, d) # NoIndex
    THEN [s |-> s, result |-> <<a, LoadSlab(s, am).domains[d]>>]
    ELSE IF createIfNotExists
    THEN AccountMapNewDomain(s, a, am, d, NewSlabID(s, a))
    ELSE [s |-> s, result |-> NoSlab]

\* AccountStorageMap.DomainExists
AccountMapDomainExists(s, am, d) ==
    LookupIndex(LoadSlab(s, am).domains, d) # NoIndex

\* AccountStorageMap.Count: the count of the atree map.
AccountMapCount(s, am) == LoadSlab(s, am).count

\* AccountStorageMap.Domains: the set of the keys of the map.
AccountMapDomains(s, am) == DOMAIN LoadSlab(s, am).domains

\* Variant of the removal of a domain storage map: the slabs of its large
\* values are left in the slab store.
RemoveDomainSlab_Shallow(s, a, index) ==
    IF index = NoIndex THEN s ELSE [s EXCEPT !.deltas = Del(@, <<a, index>>)]

\* The slab of a domain storage map that left its account map is removed
\* from the slab store, with the slabs of its large values.
RemoveDomainSlab(s, a, index) ==
    IF index = NoIndex THEN s
    ELSE RemoveSlabs(s, {<<a, index>>}
                            \cup ValueSlabIDs(LoadSlab(s, <<a, index>>), a))

\* Variant of AccountStorageMap.WriteDomain: reports whether the domain
\* exists after the call.
AccountMapWriteDomain_ExistsAfter(s, a, am, d, m) ==
    [s |-> StoreSlab(
               RemoveDomainSlab(s, a, LookupIndex(LoadSlab(s, am).domains, d)),
               am,
               IF m = NoSlab THEN AtreeMapRemove(LoadSlab(s, am), d)
               ELSE AtreeMapSet(LoadSlab(s, am), d, m[2])),
     existed |-> m # NoSlab]

\* AccountStorageMap.WriteDomain: sets the domain storage map m of domain d,
\* or removes the domain when m is nil; the domain storage map that was
\* there is removed from the slab store. Returns whether the domain existed.
AccountMapWriteDomain(s, a, am, d, m) ==
    [s |-> StoreSlab(
               RemoveDomainSlab(s, a, LookupIndex(LoadSlab(s, am).domains, d)),
               am,
               IF m = NoSlab THEN AtreeMapRemove(LoadSlab(s, am), d)
               ELSE AtreeMapSet(LoadSlab(s, am), d, m[2])),
     existed |-> AccountMapDomainExists(s, am, d)]

\* AccountStorageMap.Iterator: an iterator over the elements of the atree
\* map, in the order in which the map holds its keys.
AccountMapIterator(order) ==
    [open |-> TRUE, rest |-> order, yielded |-> <<>>]

\* Variant of AccountStorageMapIterator.Next: the iterator does not advance.
IteratorNext_NoAdvance(s, a, am, it) ==
    IF it.rest = <<>> THEN [it |-> it, domain |-> "", result |-> NoSlab]
    ELSE [it |-> [it EXCEPT !.yielded =
                      Append(@, <<Head(it.rest),
                                  <<a, LoadSlab(s, am).domains[Head(it.rest)]>> >>)],
          domain |-> Head(it.rest),
          result |-> <<a, LoadSlab(s, am).domains[Head(it.rest)]>>]

\* AccountStorageMapIterator.Next: the next domain and its domain storage
\* map; the empty domain and nil when no element is left.
IteratorNext(s, a, am, it) ==
    IF it.rest = <<>> THEN [it |-> it, domain |-> "", result |-> NoSlab]
    ELSE [it |-> [it EXCEPT !.rest = Tail(@),
                            !.yielded =
                      Append(@, <<Head(it.rest),
                                  <<a, LoadSlab(s, am).domains[Head(it.rest)]>> >>)],
          domain |-> Head(it.rest),
          result |-> <<a, LoadSlab(s, am).domains[Head(it.rest)]>>]

\* AccountStorageV2.storeNewAccountStorageMap
storeNewAccountStorageMap(s, a, id) ==
    cacheAccountStorageMap(AllocateSlab(s, a, EmptyAccountMap), a, id)

V2GetDomainStorageMapIn(g, a, d, createIfNotExists) ==
    IF g.result # NoSlab
    THEN AccountMapGetDomain(g.s, a, g.result, d, createIfNotExists)
    ELSE IF createIfNotExists
    THEN AccountMapGetDomain(
             storeNewAccountStorageMap(g.s, a, NewSlabID(g.s, a)),
             a, NewSlabID(g.s, a), d, TRUE)
    ELSE [s |-> g.s, result |-> NoSlab]

\* AccountStorageV2.GetDomainStorageMap
V2GetDomainStorageMap(s, a, d, createIfNotExists) ==
    V2GetDomainStorageMapIn(getAccountStorageMap(s, a), a, d,
                            createIfNotExists)

\* AccountStorageV2.cachedRootSlabIDs
cachedRootSlabIDs(s) == {s.cam[a] : a \in DOMAIN s.cam} \ {NoSlab}

\* The account map of a is dirty: it has a slab in the delta buffer.
IsDirtyAccountMap(s, a) ==
    LookupSlab(s.cam, a) # NoSlab /\ s.cam[a] \in DOMAIN s.deltas

RECURSIVE V2CommitFrom(_, _)
V2CommitFrom(s, addrs) ==
    IF addrs = <<>> THEN s
    ELSE V2CommitFrom(
             IF IsDirtyAccountMap(s, Head(addrs))
             THEN WriteReg(s, Head(addrs), AccountStorageKey,
                           s.cam[Head(addrs)][2])
             ELSE s,
             Tail(addrs))

\* Variant of AccountStorageV2.commit: no register is written.
V2Commit_NoRegister(s) == s

\* AccountStorageV2.commit: writes the "stored" register of every dirty
\* account map, in ascending address order.
V2Commit(s) == V2CommitFrom(s, SortedSeq(DOMAIN s.cam))

(***************************************************************************)
(* The Storage facade: format detection                                    *)
(***************************************************************************)

\* hasAccountStorageMap: whether the "stored" register exists.
hasAccountStorageMap(s, a) == s.reg[a][AccountStorageKey] # NoIndex

\* readSlabIndexFromRegister: whether the register exists.
readSlabIndexFromRegister(s, a, key) == s.reg[a][key] # NoIndex

\* Storage.isV2Account: reads the "stored" register.
isV2Account(s, a) ==
    [s |-> ReadReg(s, a, AccountStorageKey),
     result |-> hasAccountStorageMap(s, a)]

\* Storage.hasDomainRegister: reads the domain register.
hasDomainRegister(s, a, d) ==
    [s |-> ReadReg(s, a, d), result |-> readSlabIndexFromRegister(s, a, d)]

RECURSIVE isV1AccountFrom(_, _, _)
isV1AccountFrom(s, a, i) ==
    IF i > Len(AllStorageDomains) THEN [s |-> s, result |-> FALSE]
    ELSE IF readSlabIndexFromRegister(s, a, AllStorageDomains[i])
    THEN [s |-> ReadReg(s, a, AllStorageDomains[i]), result |-> TRUE]
    ELSE isV1AccountFrom(ReadReg(s, a, AllStorageDomains[i]), a, i + 1)

\* Storage.isV1Account: reads the domain registers in order until one exists.
isV1Account(s, a) == isV1AccountFrom(s, a, 1)

\* Variant of getCachedAccountFormat: every cached address is reported as V1.
getCachedAccountFormat_AllV1(s, a) ==
    IF a \notin DOMAIN s.cv1 THEN <<storageFormatUnknown, FALSE>>
    ELSE <<storageFormatV1, TRUE>>

\* Storage.getCachedAccountFormat: (format, known).
getCachedAccountFormat(s, a) ==
    IF a \notin DOMAIN s.cv1 THEN <<storageFormatUnknown, FALSE>>
    ELSE IF s.cv1[a] THEN <<storageFormatV1, TRUE>>
    ELSE <<StorageFormatV2, TRUE>>

\* Variant of FormatFromAllDomains: the result of the scan is not used.
FormatFromAllDomains_AlwaysNew(v1) ==
    [s |-> v1.s, format |-> storageFormatNew]

\* getAccountStorageFormat, after the given domain register was not found:
\* all domain registers are read.
FormatFromAllDomains(v1) ==
    IF v1.result THEN [s |-> v1.s, format |-> storageFormatV1]
    ELSE [s |-> v1.s, format |-> storageFormatNew]

\* Variant of FormatFromDomain: onlyCheckSpecifiedDomainForV1 is not honoured.
FormatFromDomain_ScanAll(dr, a, onlyCheckSpecifiedDomainForV1) ==
    IF dr.result THEN [s |-> dr.s, format |-> storageFormatV1]
    ELSE FormatFromAllDomains(isV1Account(dr.s, a))

\* getAccountStorageFormat, after the "stored" register was not found: the
\* given domain register is read.
FormatFromDomain(dr, a, onlyCheckSpecifiedDomainForV1) ==
    IF dr.result THEN [s |-> dr.s, format |-> storageFormatV1]
    ELSE IF onlyCheckSpecifiedDomainForV1
    THEN [s |-> dr.s, format |-> storageFormatUnknown]
    ELSE FormatFromAllDomains(isV1Account(dr.s, a))

\* getAccountStorageFormat, without a cached format: the "stored" register
\* is read.
FormatFromStored(v2, a, d, onlyCheckSpecifiedDomainForV1) ==
    IF v2.result THEN [s |-> v2.s, format |-> StorageFormatV2]
    ELSE FormatFromDomain(hasDomainRegister(v2.s, a, d), a,
                          onlyCheckSpecifiedDomainForV1)

\* Variant of FormatFromCache: a cached V2 address is reported as V1.
FormatFromCache_CachedIsV1(s, c, a, d, onlyCheckSpecifiedDomainForV1) ==
    IF c[2] THEN [s |-> s, format |-> storageFormatV1]
    ELSE FormatFromStored(isV2Account(s, a), a, d,
                          onlyCheckSpecifiedDomainForV1)

\* Variant of FormatFromCache: the cached format is not used.
FormatFromCache_NoCache(s, c, a, d, onlyCheckSpecifiedDomainForV1) ==
    FormatFromStored(isV2Account(s, a), a, d, onlyCheckSpecifiedDomainForV1)

\* getAccountStorageFormat, V2 enabled. The pair returned by
\* getCachedAccountFormat is used as (isCachedV1, isCachedV2): the address is
\* cached as V1 when the cached format is known and is storageFormatV1, and
\* as V2 when it is known and is StorageFormatV2.
FormatFromCache(s, c, a, d, onlyCheckSpecifiedDomainForV1) ==
    IF c[2] /\ c[1] = storageFormatV1
    THEN [s |-> s, format |-> storageFormatV1]
    ELSE IF c[2] /\ c[1] = StorageFormatV2
    THEN [s |-> s, format |-> StorageFormatV2]
    ELSE FormatFromStored(isV2Account(s, a), a, d,
                          onlyCheckSpecifiedDomainForV1)

\* Storage.getAccountStorageFormat
getAccountStorageFormat(s, a, d, onlyCheckSpecifiedDomainForV1) ==
    IF ~s.v2 THEN [s |-> s, format |-> storageFormatV1]
    ELSE FormatFromCache(s, getCachedAccountFormat(s, a), a, d,
                         onlyCheckSpecifiedDomainForV1)

\* Storage.cacheIsV1Account
cacheIsV1Account(s, a, isV1) == [s EXCEPT !.cv1 = Put(@, a, isV1)]

\* Storage.cacheDomainStorageMap
cacheDomainStorageMap(s, key, domainStorageMap) ==
    [s EXCEPT !.cdm = Put(@, key, domainStorageMap)]

(***************************************************************************)
(* The Storage facade: GetDomainStorageMap                                 *)
(***************************************************************************)

\* What a call of GetDomainStorageMap did: the state, the map (or nil), the
\* format found, the layer called, the registers read by the format
\* detection, and whether the call panicked.
Outcome(s, result, format, layer, probe, panic) ==
    [s |-> s, result |-> result, format |-> format, layer |-> layer,
     probe |-> probe, panic |-> panic]

\* GetDomainStorageMap, V2 disabled: every account is handled as V1.
DispatchV2Disabled(r, a) ==
    Outcome(IF r.result # NoSlab THEN cacheIsV1Account(r.s, a, TRUE) ELSE r.s,
            r.result, NoFormat, "v1", <<>>, FALSE)

\* GetDomainStorageMap, case storageFormatV1.
DispatchV1(r, a, format, probe) ==
    Outcome(cacheIsV1Account(r.s, a, TRUE), r.result, format, "v1", probe,
            FALSE)

\* Variant of DispatchV2: the address is cached as V1.
DispatchV2_CachedAsV1(r, a, format, probe) ==
    Outcome(cacheIsV1Account(r.s, a, TRUE), r.result, format, "v2", probe,
            FALSE)

\* GetDomainStorageMap, case StorageFormatV2, storageFormatNew.
DispatchV2(r, a, format, probe) ==
    Outcome(cacheIsV1Account(r.s, a, FALSE), r.result, format, "v2", probe,
            FALSE)

\* Variant of DispatchOnFormat: a new account is created by the V1 layer.
DispatchOnFormat_NewAsV1(f, a, d, createIfNotExists) ==
    IF f.format = storageFormatUnknown
    THEN Outcome(f.s, NoSlab, f.format, "none", f.s.log, createIfNotExists)
    ELSE IF f.format \in {storageFormatV1, storageFormatNew}
    THEN DispatchV1(V1GetDomainStorageMap(f.s, a, d, createIfNotExists), a,
                    f.format, f.s.log)
    ELSE DispatchV2(V2GetDomainStorageMap(f.s, a, d, createIfNotExists), a,
                    f.format, f.s.log)

\* Variant of DispatchOnFormat: an address of unknown format is cached as V1.
DispatchOnFormat_CacheUnknown(f, a, d, createIfNotExists) ==
    IF f.format = storageFormatUnknown
    THEN Outcome(cacheIsV1Account(f.s, a, TRUE), NoSlab, f.format, "none",
                 f.s.log, createIfNotExists)
    ELSE IF f.format = storageFormatV1
    THEN DispatchV1(V1GetDomainStorageMap(f.s, a, d, createIfNotExists), a,
                    f.format, f.s.log)
    ELSE DispatchV2(V2GetDomainStorageMap(f.s, a, d, createIfNotExists), a,
                    f.format, f.s.log)

\* GetDomainStorageMap, V2 enabled: the switch on the storage format.
DispatchOnFormat(f, a, d, createIfNotExists) ==
    IF f.format = storageFormatUnknown
    THEN Outcome(f.s, NoSlab, f.format, "none", f.s.log, createIfNotExists)
    ELSE IF f.format = storageFormatV1
    THEN DispatchV1(V1GetDomainStorageMap(f.s, a, d, createIfNotExists), a,
                    f.format, f.s.log)
    ELSE DispatchV2(V2GetDomainStorageMap(f.s, a, d, createIfNotExists), a,
                    f.format, f.s.log)

\* Variant of GetDomainStorageMapDispatch: the format is detected whatever
\* the configuration.
GetDomainStorageMapDispatch_AlwaysDetect(s, a, d, createIfNotExists) ==
    DispatchOnFormat(
        FormatFromCache(s, getCachedAccountFormat(s, a), a, d,
                        ~createIfNotExists),
        a, d, createIfNotExists)

\* Variant of GetDomainStorageMapDispatch: only the specified domain
\* register is checked for V1, whatever createIfNotExists is.
GetDomainStorageMapDispatch_OnlySpecifiedDomain(s, a, d, createIfNotExists) ==
    IF ~s.v2
    THEN DispatchV2Disabled(V1GetDomainStorageMap(s, a, d, createIfNotExists),
                            a)
    ELSE DispatchOnFormat(getAccountStorageFormat(s, a, d, TRUE),
                          a, d, createIfNotExists)

\* GetDomainStorageMap after a miss of the domain map cache.
GetDomainStorageMapDispatch(s, a, d, createIfNotExists) ==
    IF ~s.v2
    THEN DispatchV2Disabled(V1GetDomainStorageMap(s, a, d, createIfNotExists),
                            a)
    ELSE DispatchOnFormat(
             getAccountStorageFormat(s, a, d, ~createIfNotExists),
             a, d, createIfNotExists)

\* Variant of the deferred function of GetDomainStorageMap: the result is
\* cached also when it is nil.
CacheResult_AlsoNil(r, domainStorageKey) ==
    [r EXCEPT !.s = cacheDomainStorageMap(@, domainStorageKey, r.result)]

\* The deferred function of GetDomainStorageMap: a non-nil map is cached.
CacheResult(r, domainStorageKey) ==
    IF r.result # NoSlab
    THEN [r EXCEPT !.s = cacheDomainStorageMap(@, domainStorageKey, r.result)]
    ELSE r

\* Storage.GetDomainStorageMap
GetDomainStorageMap(s, a, d, createIfNotExists) ==
    IF LookupSlab(s.cdm, <<a, d>>) # NoSlab
    THEN Outcome(s, s.cdm[<<a, d>>], NoFormat, "cache", <<>>, FALSE)
    ELSE CacheResult(GetDomainStorageMapDispatch(s, a, d, createIfNotExists),
                     <<a, d>>)

(***************************************************************************)
(* The Storage facade: deferred contract updates                           *)
(***************************************************************************)

\* The position of the key in the ordered map, or 0.
UpdateIndex(cu, key) ==
    IF \E i \in DOMAIN cu : cu[i].key = key
    THEN CHOOSE i \in DOMAIN cu : cu[i].key = key
    ELSE 0

\* Variant of OrderedMap.Set: the value of an existing key is kept.
OrderedMapSet_KeepFirst(cu, i, pair) ==
    IF i = 0 THEN Append(cu, pair) ELSE cu

\* Variant of OrderedMap.Set: an existing key moves to the newest position.
OrderedMapSet_MoveToEnd(cu, i, pair) ==
    IF i = 0 THEN Append(cu, pair)
    ELSE Append(SubSeq(cu, 1, i - 1) \o SubSeq(cu, i + 1, Len(cu)), pair)

\* OrderedMap.Set: the value of an existing key is replaced in place; a
\* new key is appended.
OrderedMapSet(cu, i, pair) ==
    IF i = 0 THEN Append(cu, pair) ELSE [cu EXCEPT ![i] = pair]

\* Variant of recordContractUpdate: recording nil deletes the map entry.
recordContractUpdate_DropNil(s, a, name, contractValue) ==
    IF contractValue = Nil
    THEN [s EXCEPT !.cu = SelectSeq(@, LAMBDA p : p.key # <<a, name>>)]
    ELSE [s EXCEPT !.cu = OrderedMapSet(@, UpdateIndex(@, <<a, name>>),
                              [key |-> <<a, name>>, value |-> contractValue])]

\* Storage.recordContractUpdate: nil values are kept.
recordContractUpdate(s, a, name, contractValue) ==
    [s EXCEPT !.cu = OrderedMapSet(@, UpdateIndex(@, <<a, name>>),
                         [key |-> <<a, name>>, value |-> contractValue])]

\* Storage.contractUpdateRecorded
contractUpdateRecorded(s, a, name) == UpdateIndex(s.cu, <<a, name>>) # 0

WriteContractValue(g, key, contractValue) ==
    IF g.panic \/ g.result = NoSlab
    THEN [g.s EXCEPT !.panic = TRUE]
    ELSE WriteValue([g.s EXCEPT !.log = Append(@, <<"set", key[1], key[2], 0>>)],
                    g.result, key[2], contractValue)

\* Storage.writeContractUpdate
writeContractUpdate(s, key, contractValue) ==
    WriteContractValue(
        GetDomainStorageMap(s, key[1], StorageDomainContract, TRUE),
        key, contractValue)

RECURSIVE commitContractUpdatesFrom(_, _)
commitContractUpdatesFrom(s, i) ==
    IF i > Len(s.cu) \/ s.panic THEN s
    ELSE commitContractUpdatesFrom(
             writeContractUpdate(s, s.cu[i].key, s.cu[i].value), i + 1)

\* Storage.commitContractUpdates: every pair, oldest first.
commitContractUpdates(s) == commitContractUpdatesFrom(s, 1)

(***************************************************************************)
(* Migration of domain registers (V1) to an account storage map (V2)       *)
(***************************************************************************)

\* Variant of the getDomainStorageMap closure: the cached domain storage
\* map is not looked at.
MigrationGetDomainStorageMap_RegisterOnly(s, a, d) ==
    getDomainStorageMapFromV1DomainRegister(s, a, d)

\* The getDomainStorageMap closure of migrateV1AccountsToV2: the cached
\* domain storage map if there is one, else the one of the V1 register.
MigrationGetDomainStorageMap(s, a, d) ==
    IF LookupSlab(s.cdm, <<a, d>>) # NoSlab THEN s.cdm[<<a, d>>]
    ELSE getDomainStorageMapFromV1DomainRegister(s, a, d)

\* The domain storage map m of domain d, if any, is inserted into the
\* account map am, and the V1 register of d, if any, is deleted.
MigrateDomain(s, a, am, d, m) ==
    IF m = NoSlab THEN s
    ELSE IF s.reg[a][d] # NoIndex
    THEN WriteReg(StoreSlab(s, am, AtreeMapSet(LoadSlab(s, am), d, m[2])),
                  a, d, NoIndex)
    ELSE StoreSlab(s, am, AtreeMapSet(LoadSlab(s, am), d, m[2]))

RECURSIVE migrateDomainRegisters(_, _, _, _)
\* Every domain, in order, that has a V1 register or a cached map.
migrateDomainRegisters(s, a, am, i) ==
    IF i > Len(AllStorageDomains) THEN s
    ELSE migrateDomainRegisters(
             MigrateDomain(s, a, am, AllStorageDomains[i],
                 MigrationGetDomainStorageMap(s, a, AllStorageDomains[i])),
             a, am, i + 1)

\* DomainRegisterMigration.MigrateAccount: builds the account map of a V1
\* account, deletes its V1 registers and installs the "stored" register.
MigrateAccount(s, a, am) ==
    [s |-> WriteReg(
               migrateDomainRegisters(AllocateSlab(s, a, EmptyAccountMap),
                                      a, am, 1),
               a, AccountStorageKey, am[2]),
     result |-> am]

\* Variant of the loop body: the address is not marked as V2.
MigrateOne_NotMarked(m, a) == cacheAccountStorageMap(m.s, a, m.result)

\* The body of the loop of migrateV1AccountsToV2: the migrated account map
\* is cached and the address is marked as V2.
MigrateOne(m, a) ==
    cacheIsV1Account(cacheAccountStorageMap(m.s, a, m.result), a, FALSE)

\* The call of the account migrator that fails, or 0.
MigrateFailIndex(s) ==
    IF s.fail = "migrate1" THEN 1 ELSE IF s.fail = "migrate2" THEN 2 ELSE 0

RECURSIVE migrateScheduled(_, _, _)
\* The loop of migrateV1AccountsToV2 over the sorted addresses, from the
\* i-th call of the migrator on: the error of a call ends the loop.
migrateScheduled(s, addrs, i) ==
    IF addrs = <<>> THEN [s |-> s, err |-> ""]
    ELSE IF i = MigrateFailIndex(s) THEN [s |-> s, err |-> "migrate"]
    ELSE migrateScheduled(
             MigrateOne(
                 MigrateAccount(
                     [s EXCEPT !.log = Append(@, <<"migrate", Head(addrs), "", 0>>)],
                     Head(addrs), NewSlabID(s, Head(addrs))),
                 Head(addrs)),
             Tail(addrs), i + 1)

\* migrateV1AccountsToV2 after the loop: the scheduled list is cleared unless
\* the loop returned an error.
ClearScheduled(m) ==
    IF m.err # "" THEN m
    ELSE [s |-> [m.s EXCEPT !.sched = <<>>], err |-> ""]

\* migrateV1AccountsToV2 after the scheduled list was sorted in place.
MigrateSorted(s) == ClearScheduled(migrateScheduled(s, s.sched, 1))

\* Variant of migrateV1AccountsToV2: the scheduled list is not sorted.
migrateV1AccountsToV2_Unsorted(s) ==
    IF ~s.v2 THEN [s |-> s, err |-> "v2 not enabled"]
    ELSE IF Len(s.sched) = 0 THEN [s |-> s, err |-> ""]
    ELSE MigrateSorted(s)

\* Storage.migrateV1AccountsToV2
migrateV1AccountsToV2(s) ==
    IF ~s.v2 THEN [s |-> s, err |-> "v2 not enabled"]
    ELSE IF Len(s.sched) = 0 THEN [s |-> s, err |-> ""]
    ELSE MigrateSorted([s EXCEPT !.sched = SortAddresses(@)])

(***************************************************************************)
(* Commit                                                                  *)
(***************************************************************************)

RECURSIVE SortedIDs(_)
\* Slab IDs in ascending order (address, then index).
SortedIDs(S) ==
    IF S = {} THEN <<>>
    ELSE LET m == CHOOSE x \in S : \A y \in S :
                      x[1] < y[1] \/ (x[1] = y[1] /\ x[2] <= y[2])
         IN <<m>> \o SortedIDs(S \ {m})

RECURSIVE FlushFrom(_, _)
FlushFrom(s, ids) ==
    IF ids = <<>> THEN s
    ELSE FlushFrom([s EXCEPT !.slabs = Put(@, Head(ids), s.deltas[Head(ids)]),
                             !.deltas = Del(@, Head(ids)),
                             !.cache = @ \cup {Head(ids)},
                             !.log = Append(@, <<"slab", Head(ids)[1], "",
                                                 Head(ids)[2]>>)],
                   Tail(ids))

\* PersistentSlabStorage.FastCommit: every dirty slab of an account is
\* written to the ledger, in ascending slab ID order, and moves from the
\* delta buffer to the read cache. Slabs with the temporary address stay.
FastCommit(s) ==
    FlushFrom(s, SortedIDs({id \in DOMAIN s.deltas : id[1] # TempAddress}))

\* The commit enters the step of the given name.
Step(s, name) == [s EXCEPT !.log = Append(@, <<"step", 0, name, 0>>)]

\* The size of an encoded slab: its header and its elements.
SlabSize(slab) ==
    IF slab.kind = "account" THEN 1 + Cardinality(DOMAIN slab.domains)
    ELSE IF slab.kind = "domain" THEN 1 + Cardinality(DOMAIN slab.entries)
    ELSE 1

RECURSIVE SizeOfSlabs(_, _)
SizeOfSlabs(ds, ids) ==
    IF ids = {} THEN 0
    ELSE LET id == CHOOSE x \in ids : TRUE
         IN SlabSize(ds[id]) + SizeOfSlabs(ds, ids \ {id})

\* PersistentSlabStorage.DeltasSizeWithoutTempAddresses
DeltasSizeWithoutTempAddresses(s) ==
    SizeOfSlabs(s.deltas, {id \in DOMAIN s.deltas : id[1] # TempAddress})

\* Variant of ReportComputation: a size of zero is reported too.
ReportComputation_Always(s, size) ==
    [s EXCEPT !.log = Append(@, <<"computation", 0, "EncodeValue", size>>)]

\* Storage.commit: computation of kind EncodeValue is reported for the
\* size of the deltas, if there are any.
ReportComputation(s, size) ==
    IF size > 0
    THEN [s EXCEPT !.log = Append(@, <<"computation", 0, "EncodeValue", size>>)]
    ELSE s

\* Storage.commit, the slab flush: the computation is reported, and the
\* error of FastCommit is returned.
FlushSlabs(s) ==
    IF s.fail = "flush"
    THEN [s |-> ReportComputation(s, DeltasSizeWithoutTempAddresses(s)),
          err |-> "flush"]
    ELSE [s |-> FastCommit(
                    ReportComputation(s, DeltasSizeWithoutTempAddresses(s))),
          err |-> ""]

\* Variant of CommitSlabs: the slabs are flushed before the error of the
\* migration is returned.
CommitSlabs_FlushThenError(m) ==
    IF m.err # "" THEN [s |-> FastCommit(Step(m.s, "flush")), err |-> m.err]
    ELSE FlushSlabs(Step(m.s, "flush"))

\* Storage.commit, from the migration on: its error is returned, else the
\* slab storage is committed.
CommitSlabs(m) ==
    IF m.err # "" THEN m ELSE FlushSlabs(Step(m.s, "flush"))

\* Storage.commit, V2 enabled, from the V2 layer's commit on: its error is
\* returned, else the scheduled accounts are migrated.
CommitV2(s) ==
    IF s.fail = "v2" THEN [s |-> s, err |-> "v2"]
    ELSE CommitSlabs(migrateV1AccountsToV2(Step(V2Commit(s), "migrate")))

\* Storage.commit, after the V1 layer's commit: the V2 layer's commit and
\* the migration run only if V2 is enabled.
CommitAfterV1(s) ==
    IF s.v2 THEN CommitV2(Step(s, "v2"))
    ELSE CommitSlabs([s |-> s, err |-> ""])

\* Storage.commit, from the V1 layer's commit on: its error is returned.
CommitV1(s) ==
    IF s.fail = "v1" THEN [s |-> s, err |-> "v1"]
    ELSE CommitAfterV1(V1Commit(s))

\* Variant of CommitLayers: the slabs are flushed before the layers commit.
CommitLayers_FlushFirst(s) ==
    CommitV1(Step(FastCommit(Step(s, "flush")), "v1"))

\* Storage.commit, after the contract updates.
CommitLayers(s) == CommitV1(Step(s, "v1"))

\* Variant of commit: the contract updates are applied whatever the flag.
commit_AlwaysContractUpdates(s, commitContractUpdatesFlag) ==
    CommitLayers(commitContractUpdates(Step(s, "contracts")))

\* Storage.commit
commit(s, commitContractUpdatesFlag) ==
    IF commitContractUpdatesFlag
    THEN CommitLayers(commitContractUpdates(Step(s, "contracts")))
    ELSE CommitLayers(s)

\* Storage.ScheduleV2Migration
ScheduleV2Migration(s, a) == [s EXCEPT !.sched = Append(@, a)]

RECURSIVE scheduleModifiedFrom(_, _)
scheduleModifiedFrom(s, addrs) ==
    IF addrs = <<>> THEN s
    ELSE scheduleModifiedFrom(
             IF s.cv1[Head(addrs)] /\ HasUnsavedChanges(s, Head(addrs))
             THEN ScheduleV2Migration(s, Head(addrs)) ELSE s,
             Tail(addrs))

RECURSIVE scheduleCachedV1From(_, _)
scheduleCachedV1From(s, addrs) ==
    IF addrs = <<>> THEN s
    ELSE scheduleCachedV1From(
             IF s.cv1[Head(addrs)]
             THEN ScheduleV2Migration(s, Head(addrs)) ELSE s,
             Tail(addrs))

\* Variant of ScheduleV2MigrationForModifiedAccounts: every cached V1
\* address is scheduled, with or without unsaved changes.
ScheduleV2MigrationForModifiedAccounts_AllCachedV1(s, addrs) ==
    scheduleCachedV1From(s, addrs)

\* Storage.ScheduleV2MigrationForModifiedAccounts, the cached addresses
\* visited in the order addrs (Go's map iteration order is not specified).
ScheduleV2MigrationForModifiedAccounts(s, addrs) ==
    scheduleModifiedFrom(s, addrs)

(***************************************************************************)
(* Health check                                                            *)
(***************************************************************************)

\* The slabs the slab store holds: its read cache and its delta buffer.
StoredSlabIDs(s) == s.cache \cup DOMAIN s.deltas

\* The slabs a slab refers to: an account map refers to the domain storage
\* maps of its domains, a domain storage map to the slabs of its large
\* values.
ChildSlabIDs(s, id) ==
    IF LoadSlab(s, id).kind = "account"
    THEN {<<id[1], LoadSlab(s, id).domains[d]>> :
              d \in DOMAIN LoadSlab(s, id).domains}
    ELSE IF LoadSlab(s, id).kind = "domain"
    THEN ValueSlabIDs(LoadSlab(s, id), id[1])
    ELSE {}

ReferencedSlabIDs(s) == UNION {ChildSlabIDs(s, id) : id \in StoredSlabIDs(s)}

\* atree.CheckStorageHealth: walks the slabs of the slab store and the slabs
\* they refer to (which are read into the cache); a missing child is an
\* error, and the roots are the slabs that no slab refers to.
CheckStorageHealth(s) ==
    IF \E id \in ReferencedSlabIDs(s) :
           id \notin DOMAIN s.deltas \cup DOMAIN s.slabs
    THEN [s |-> s, rootSlabIDs |-> {}, err |-> "corruption"]
    ELSE [s |-> [s EXCEPT !.cache = @ \cup (ReferencedSlabIDs(s)
                                               \ DOMAIN s.deltas)],
          rootSlabIDs |-> StoredSlabIDs(s) \ ReferencedSlabIDs(s),
          err |-> ""]

\* CheckHealth: the root slab IDs that do not have the temporary address.
accountRootSlabIDs(rootSlabIDs) ==
    {id \in rootSlabIDs : id[1] # TempAddress}

RECURSIVE KeysOf(_)
\* The keys of a cache, in the order in which they are visited.
KeysOf(S) ==
    IF S = {} THEN <<>>
    ELSE LET k == CHOOSE x \in S : TRUE IN <<k>> \o KeysOf(S \ {k})

\* Variant of the loop body: the format found is written to the flag cache.
UnmigratedDomainMap_CacheFormat(v, a, id, ids) ==
    [s |-> cacheIsV1Account(v.s, a, v.result),
     ids |-> IF v.result THEN ids \cup {id} ELSE ids]

\* CheckHealth, the body of the loop over the cached domain storage maps:
\* the map of an account that isV1Account reports as V1 is an expected root.
UnmigratedDomainMap(v, a, id, ids) ==
    [s |-> v.s, ids |-> IF v.result THEN ids \cup {id} ELSE ids]

RECURSIVE unmigratedDomainMaps(_, _)
\* CheckHealth, the loop over the cached domain storage maps.
unmigratedDomainMaps(g, keys) ==
    IF keys = <<>> THEN g
    ELSE unmigratedDomainMaps(
             UnmigratedDomainMap(isV1Account(g.s, Head(keys)[1]),
                                 Head(keys)[1], g.s.cdm[Head(keys)], g.ids),
             Tail(keys))

\* Variant of storageMapStorageIDs: the cached account maps are expected
\* roots whatever the configuration.
storageMapStorageIDs_AlwaysV2(s) ==
    unmigratedDomainMaps([s |-> s, ids |-> cachedRootSlabIDs(s)],
                         KeysOf(DOMAIN s.cdm))

\* Variant of storageMapStorageIDs: the cached domain storage maps of
\* every account are expected roots.
storageMapStorageIDs_AllDomainMaps(s) ==
    [s |-> s,
     ids |-> (IF s.v2 THEN cachedRootSlabIDs(s) ELSE {})
                 \cup {s.cdm[k] : k \in DOMAIN s.cdm}]

\* CheckHealth, the expected roots: the cached account maps if V2 is
\* enabled, and the cached domain storage maps of V1 accounts.
storageMapStorageIDs(s) ==
    unmigratedDomainMaps(
        [s |-> s, ids |-> IF s.v2 THEN cachedRootSlabIDs(s) ELSE {}],
        KeysOf(DOMAIN s.cdm))

\* Variant of CheckRoots: roots with the temporary address are counted.
CheckRoots_WithTemp(e, rootSlabIDs) ==
    IF \E id \in e.ids : id \notin accountRootSlabIDs(rootSlabIDs)
    THEN [s |-> e.s, err |-> "non-root",
          slab |-> SortedIDs(e.ids \ accountRootSlabIDs(rootSlabIDs))[1],
          unreferenced |-> <<>>]
    ELSE IF rootSlabIDs \subseteq e.ids
    THEN [s |-> e.s, err |-> "", slab |-> NoSlab, unreferenced |-> <<>>]
    ELSE [s |-> e.s, err |-> "unreferenced", slab |-> NoSlab,
          unreferenced |-> SortedIDs(rootSlabIDs \ e.ids)]

\* Variant of CheckRoots: an expected root that is no root is passed over.
CheckRoots_NoDangling(e, rootSlabIDs) ==
    IF accountRootSlabIDs(rootSlabIDs) \subseteq e.ids
    THEN [s |-> e.s, err |-> "", slab |-> NoSlab, unreferenced |-> <<>>]
    ELSE [s |-> e.s, err |-> "unreferenced", slab |-> NoSlab,
          unreferenced |-> SortedIDs(accountRootSlabIDs(rootSlabIDs) \ e.ids)]

\* CheckHealth, after the expected roots e.ids were collected and sorted:
\* the first expected root that is no account root is an error; else the
\* account roots that are not expected, if any, are returned sorted in an
\* UnreferencedRootSlabsError.
CheckRoots(e, rootSlabIDs) ==
    IF \E id \in e.ids : id \notin accountRootSlabIDs(rootSlabIDs)
    THEN [s |-> e.s, err |-> "non-root",
          slab |-> SortedIDs(e.ids \ accountRootSlabIDs(rootSlabIDs))[1],
          unreferenced |-> <<>>]
    ELSE IF accountRootSlabIDs(rootSlabIDs) \subseteq e.ids
    THEN [s |-> e.s, err |-> "", slab |-> NoSlab, unreferenced |-> <<>>]
    ELSE [s |-> e.s, err |-> "unreferenced", slab |-> NoSlab,
          unreferenced |-> SortedIDs(accountRootSlabIDs(rootSlabIDs) \ e.ids)]

\* CheckHealth, after the walk of the slab store: its error is returned.
CheckWalk(w) ==
    IF w.err # ""
    THEN [s |-> w.s, err |-> w.err, slab |-> NoSlab, unreferenced |-> <<>>]
    ELSE CheckRoots(storageMapStorageIDs(w.s), w.rootSlabIDs)

\* Storage.CheckHealth
CheckHealth(s) == CheckWalk(CheckStorageHealth(s))

(***************************************************************************)
(* Actions: one per operation of the facade                                *)
(***************************************************************************)

RegisterKeys == Domains \cup {AccountStorageKey}

\* The orders in which a set of addresses may be visited.
Orders(S) ==
    {seq \in [1..Cardinality(S) -> S] :
        \A x \in S : \E i \in DOMAIN seq : seq[i] = x}

SetState(s) ==
    /\ registers' = s.reg
    /\ ledgerSlabs' = s.slabs
    /\ nextIndex' = s.next
    /\ deltas' = s.deltas
    /\ cachedDomainStorageMaps' = s.cdm
    /\ cachedV1Accounts' = s.cv1
    /\ contractUpdates' = s.cu
    /\ scheduledV2Migrations' = s.sched
    /\ StorageFormatV2Enabled' = s.v2
    /\ cachedAccountStorageMaps' = s.cam
    /\ slabCache' = s.cache
    /\ UNCHANGED <<flush, iterator, encoder>>

NoCall ==
    [op |-> "new", address |-> 0, domain |-> "", create |-> FALSE,
     value |-> "", format |-> NoFormat, layer |-> "", probe |-> <<>>,
     result |-> NoSlab, log |-> <<>>, panic |-> FALSE, err |-> "",
     unreferenced |-> <<>>, existed |-> FALSE, removed |-> {}]

\* No address of the ledger has both the "stored" register and a V1 domain
\* register.
Exclusive(reg) ==
    \A a \in Addresses :
        ~(reg[a][AccountStorageKey] # NoIndex
          /\ \E d \in Domains : reg[a][d] # NoIndex)

\* The record of a new facade: whether its ledger was exclusive, the
\* addresses it found to be new accounts, the last value recorded for each
\* contract, and the contract keys in the order of their first record.
NewTx(reg) ==
    [exclusive |-> Exclusive(reg), new |-> {}, recorded |-> <<>>,
     first |-> <<>>]

\* NewStorage over the ledger: empty caches, nothing recorded or scheduled.
NewStorage(v2) ==
    /\ cachedDomainStorageMaps' = <<>>
    /\ cachedV1Accounts' = <<>>
    /\ contractUpdates' = <<>>
    /\ scheduledV2Migrations' = <<>>
    /\ cachedAccountStorageMaps' = <<>>
    /\ slabCache' = {}
    /\ UNCHANGED <<flush, iterator, encoder>>
    /\ deltas' = <<>>
    /\ StorageFormatV2Enabled' = v2
    /\ last' = NoCall
    /\ tx' = NewTx(registers)

\* The state of a new facade with configuration v2 over an empty ledger.
EmptyLedgerState(v2) ==
    [reg |-> [a \in Addresses |-> [k \in RegisterKeys |-> NoIndex]],
     slabs |-> <<>>, next |-> [a \in Addresses |-> 1], deltas |-> <<>>,
     cdm |-> <<>>, cv1 |-> <<>>, cu |-> <<>>, sched |-> <<>>, v2 |-> v2,
     cam |-> <<>>, cache |-> {}, log |-> <<>>, panic |-> FALSE,
     fail |-> NoFailure]

RECURSIVE CreateDomains(_, _, _)
CreateDomains(s, a, ds) ==
    IF ds = <<>> THEN s
    ELSE CreateDomains(GetDomainStorageMap(s, a, Head(ds), TRUE).s, a, Tail(ds))

\* The domains an earlier transaction created in the seeded account.
SeedDomains == {<<>>, <<"storage">>, <<"contract">>, <<"storage", "contract">>}

\* The account seeded by earlier transactions.
SeedAddress == CHOOSE a \in Addresses : \A b \in Addresses : a <= b

\* The ledger left by an earlier transaction that ran with configuration v2,
\* created the domains ds of the seeded account and committed.
SeedLedger(v2, ds) ==
    commit(CreateDomains(EmptyLedgerState(v2), SeedAddress, ds), FALSE).s

InitLedger(l) ==
    /\ registers = l.reg
    /\ ledgerSlabs = l.slabs
    /\ nextIndex = l.next

\* A new facade over a ledger left by earlier transactions. The
\* configuration is the node's: it is the same for every facade of a run,
\* while the ledger may come from a run under the other configuration.
Init ==
    /\ \E v2 \in BOOLEAN, ds \in SeedDomains : InitLedger(SeedLedger(v2, ds))
    /\ deltas = <<>>
    /\ cachedDomainStorageMaps = <<>>
    /\ cachedV1Accounts = <<>>
    /\ contractUpdates = <<>>
    /\ scheduledV2Migrations = <<>>
    /\ cachedAccountStorageMaps = <<>>
    /\ slabCache = {}
    /\ flush = NoFlush
    /\ iterator = NoIterator
    /\ encoder = NoEncoder
    /\ StorageFormatV2Enabled \in BOOLEAN
    /\ last = NoCall
    /\ tx = NewTx(registers)

GetStep(r, a, d, createIfNotExists) ==
    /\ SetState(r.s)
    /\ last' = [NoCall EXCEPT !.op = "get", !.address = a, !.domain = d,
                    !.create = createIfNotExists, !.format = r.format,
                    !.layer = r.layer, !.probe = r.probe,
                    !.result = r.result, !.log = r.s.log, !.panic = r.panic]
    /\ tx' = IF r.format = storageFormatNew
             THEN [tx EXCEPT !.new = @ \cup {a}] ELSE tx

\* A call of GetDomainStorageMap by the interpreter.
DoGetDomainStorageMap(a, d, createIfNotExists) ==
    GetStep(GetDomainStorageMap(St, a, d, createIfNotExists), a, d,
            createIfNotExists)

WriteStep(s, a, d, v) ==
    /\ SetState(s)
    /\ last' = [NoCall EXCEPT !.op = "write", !.address = a, !.domain = d,
                    !.value = v, !.log = s.log]
    /\ UNCHANGED tx

\* The interpreter writes a value into a domain storage map it has obtained.
DoWriteValue(a, d, k, v) ==
    /\ <<a, d>> \in DOMAIN cachedDomainStorageMaps
    /\ WriteStep(WriteValue(St, cachedDomainStorageMaps[<<a, d>>], k, v),
                 a, d, v)

RecordStep(s, a, name, v) ==
    /\ SetState(s)
    /\ last' = [NoCall EXCEPT !.op = "record", !.address = a,
                    !.domain = name, !.value = v, !.log = s.log]
    /\ tx' = [tx EXCEPT !.recorded = Put(@, <<a, name>>, v),
                        !.first = IF <<a, name>> \in DOMAIN tx.recorded
                                  THEN @ ELSE Append(@, <<a, name>>)]

DoRecordContractUpdate(a, name, v) ==
    RecordStep(recordContractUpdate(St, a, name, v), a, name, v)

ScheduleStep(s, a) ==
    /\ SetState(s)
    /\ last' = [NoCall EXCEPT !.op = "schedule", !.address = a, !.log = s.log]
    /\ UNCHANGED tx

\* ScheduleV2Migration is called for accounts in storage format V1.
DoScheduleV2Migration(a) ==
    /\ Len(scheduledV2Migrations) < MaxScheduled
    /\ ~hasAccountStorageMap(St, a)
    /\ \E d \in Domains : readSlabIndexFromRegister(St, a, d)
    /\ ScheduleStep(ScheduleV2Migration(St, a), a)

ScheduleModifiedStep(s) ==
    /\ Len(s.sched) <= MaxScheduled
    /\ SetState(s)
    /\ last' = [NoCall EXCEPT !.op = "scheduleModified", !.log = s.log]
    /\ UNCHANGED tx

DoScheduleV2MigrationForModifiedAccounts ==
    \E addrs \in Orders(DOMAIN cachedV1Accounts) :
        ScheduleModifiedStep(ScheduleV2MigrationForModifiedAccounts(St, addrs))

CommitStep(r, commitContractUpdatesFlag) ==
    /\ SetState(r.s)
    /\ last' = [NoCall EXCEPT !.op = "commit",
                    !.create = commitContractUpdatesFlag, !.log = r.s.log,
                    !.panic = r.s.panic, !.err = r.err]
    /\ UNCHANGED tx

\* Storage.Commit: the deterministic commit.
DoCommit(commitContractUpdatesFlag) ==
    CommitStep(commit(St, commitContractUpdatesFlag), commitContractUpdatesFlag)

\* A commit in which the given step returns an error.
DoFailingCommit(commitContractUpdatesFlag, failure) ==
    /\ commit([St EXCEPT !.fail = failure], commitContractUpdatesFlag).err # ""
    /\ CommitStep(commit([St EXCEPT !.fail = failure],
                         commitContractUpdatesFlag),
                  commitContractUpdatesFlag)

\* The transaction is abandoned when its commit has returned an error.
Alive == last.err = ""

\* The transaction ends after its commit; the next one opens a new facade
\* over the same ledger, with the same configuration.
Reopen(v2) ==
    /\ last.op = "commit"
    /\ last.err = ""
    /\ NewStorage(v2)
    /\ UNCHANGED <<registers, ledgerSlabs, nextIndex>>

\* The transactions of a run work on the seeded account.
Next ==
    \/ \E d \in Domains, c \in BOOLEAN :
           Alive /\ DoGetDomainStorageMap(SeedAddress, d, c)
    \/ \E n \in Names, v \in Values \cup {Nil} :
           Alive /\ DoRecordContractUpdate(SeedAddress, n, v)
    \/ Alive /\ DoScheduleV2Migration(SeedAddress)
    \/ Alive /\ DoScheduleV2MigrationForModifiedAccounts
    \/ \E f \in BOOLEAN : Alive /\ DoCommit(f)
    \/ \E f \in BOOLEAN, failure \in Failures :
           Alive /\ DoFailingCommit(f, failure)
    \/ Reopen(StorageFormatV2Enabled)

\* The contracts of the transactions that deploy and remove contracts.
ContractNames == {"C1", "C2"}

\* The transactions that record contract updates of the seeded account,
\* read its contract domain and commit.
NextContract ==
    \/ \E c \in BOOLEAN :
           DoGetDomainStorageMap(SeedAddress, StorageDomainContract, c)
    \/ \E n \in ContractNames, v \in Values \cup {Nil} :
           DoRecordContractUpdate(SeedAddress, n, v)
    \/ \E f \in BOOLEAN : DoCommit(f)
    \/ Reopen(StorageFormatV2Enabled)

SpecContract == Init /\ [][NextContract]_vars

RECURSIVE CreateAccounts(_, _, _)
\* The accounts addrs are created with the domains ds[a] of each.
CreateAccounts(s, addrs, ds) ==
    IF addrs = <<>> THEN s
    ELSE CreateAccounts(CreateDomains(s, Head(addrs), ds[Head(addrs)]),
                        Tail(addrs), ds)

\* The ledger left by a transaction that ran with V2 disabled, created the
\* domains ds[a] of every account a and committed: every account is V1.
V1Ledger(ds) ==
    commit(CreateAccounts(EmptyLedgerState(FALSE), SortedSeq(Addresses), ds),
           FALSE).s

\* A new facade, with V2 enabled, over a ledger of V1 accounts.
InitMigrate ==
    /\ \E ds \in [Addresses -> SeedDomains \ {<<>>}] : InitLedger(V1Ledger(ds))
    /\ deltas = <<>>
    /\ cachedDomainStorageMaps = <<>>
    /\ cachedV1Accounts = <<>>
    /\ contractUpdates = <<>>
    /\ scheduledV2Migrations = <<>>
    /\ cachedAccountStorageMaps = <<>>
    /\ slabCache = {}
    /\ flush = NoFlush
    /\ iterator = NoIterator
    /\ encoder = NoEncoder
    /\ StorageFormatV2Enabled = TRUE
    /\ last = NoCall
    /\ tx = NewTx(registers)

\* One transaction over several V1 accounts: it reads and creates domain
\* maps, schedules migrations and commits.
NextMigrate ==
    \/ \E a \in Addresses, d \in Domains, c \in BOOLEAN :
           Alive /\ DoGetDomainStorageMap(a, d, c)
    \/ \E a \in Addresses : Alive /\ DoScheduleV2Migration(a)
    \/ Alive /\ DoScheduleV2MigrationForModifiedAccounts
    \/ Alive /\ DoCommit(FALSE)

SpecMigrate == InitMigrate /\ [][NextMigrate]_vars

\* The slab of a value that the interpreter has created and not stored in
\* an account.
TempSlabID == <<TempAddress, 1>>

\* The interpreter creates a value: its slab has the temporary address.
DoStoreTempSlab ==
    /\ TempSlabID \notin DOMAIN deltas
    /\ SetState(StoreSlab(St, TempSlabID, EmptyDomainMap))
    /\ last' = [NoCall EXCEPT !.op = "temp"]
    /\ UNCHANGED tx

HealthStep(h) ==
    /\ SetState(h.s)
    /\ last' = [NoCall EXCEPT !.op = "health", !.err = h.err,
                    !.result = h.slab, !.unreferenced = h.unreferenced,
                    !.log = h.s.log]
    /\ UNCHANGED tx

\* Storage.CheckHealth
DoCheckHealth == HealthStep(CheckHealth(St))

\* The state of the facade in the commit of s, without contract updates,
\* when the slab flush starts.
BeforeFlushOf(s) == commit([s EXCEPT !.fail = "flush"], FALSE).s

\* The state of a new facade with configuration v2 over the ledger of s.
NewStorageOver(s, v2) ==
    [s EXCEPT !.deltas = <<>>, !.cdm = <<>>, !.cv1 = <<>>, !.cu = <<>>,
              !.sched = <<>>, !.cam = <<>>, !.cache = {}, !.log = <<>>,
              !.v2 = v2]

\* The ledger left by two earlier transactions: the first ran with
\* configuration v2 and created the domains ds of the seeded account, the
\* second ran with configuration v2b and created the domains ds2.
SeedLedger2(v2, ds, v2b, ds2) ==
    commit(CreateDomains(NewStorageOver(SeedLedger(v2, ds), v2b),
                         SeedAddress, ds2),
           FALSE).s

\* A new facade over a ledger left by earlier transactions, which may have
\* run under either configuration.
InitHealth ==
    /\ \E v2 \in BOOLEAN, ds \in SeedDomains, v2b \in BOOLEAN,
          ds2 \in SeedDomains :
           InitLedger(SeedLedger2(v2, ds, v2b, ds2))
    /\ deltas = <<>>
    /\ cachedDomainStorageMaps = <<>>
    /\ cachedV1Accounts = <<>>
    /\ contractUpdates = <<>>
    /\ scheduledV2Migrations = <<>>
    /\ cachedAccountStorageMaps = <<>>
    /\ slabCache = {}
    /\ flush = NoFlush
    /\ iterator = NoIterator
    /\ encoder = NoEncoder
    /\ StorageFormatV2Enabled \in BOOLEAN
    /\ last = NoCall
    /\ tx = NewTx(registers)

\* One transaction on the seeded account that reads, creates and writes
\* domain maps, records contract updates, schedules migrations, commits
\* and checks the health of the storage.
NextHealth ==
    \/ \E d \in Domains, c \in BOOLEAN :
           Alive /\ DoGetDomainStorageMap(SeedAddress, d, c)
    \/ \E k \in Names, v \in Values :
           Alive /\ DoWriteValue(SeedAddress, "storage", k, v)
    \/ \E n \in Names, v \in Values :
           Alive /\ DoRecordContractUpdate(SeedAddress, n, v)
    \/ Alive /\ DoScheduleV2Migration(SeedAddress)
    \/ Alive /\ DoScheduleV2MigrationForModifiedAccounts
    \/ Alive /\ DoStoreTempSlab
    \/ \E f \in BOOLEAN : Alive /\ DoCommit(f)
    \/ Alive /\ DoCheckHealth

SpecHealth == InitHealth /\ [][NextHealth]_vars

\* The other account of the ledger.
OtherAddress == CHOOSE a \in Addresses : a # SeedAddress

\* The ledger of SeedLedger2 after a third transaction, which ran with V2
\* disabled and created the domains ds3 of the other account.
SeedLedger3(v2, ds, v2b, ds2, ds3) ==
    commit(CreateDomains(
               NewStorageOver(SeedLedger2(v2, ds, v2b, ds2), FALSE),
               OtherAddress, ds3),
           FALSE).s

\* A new facade, with V2 enabled, over a ledger with the seeded account and
\* a V1 account.
InitRoots ==
    /\ \E v2 \in BOOLEAN, ds \in SeedDomains, v2b \in BOOLEAN,
          ds2 \in SeedDomains, ds3 \in SeedDomains \ {<<>>} :
           InitLedger(SeedLedger3(v2, ds, v2b, ds2, ds3))
    /\ deltas = <<>>
    /\ cachedDomainStorageMaps = <<>>
    /\ cachedV1Accounts = <<>>
    /\ contractUpdates = <<>>
    /\ scheduledV2Migrations = <<>>
    /\ cachedAccountStorageMaps = <<>>
    /\ slabCache = {}
    /\ flush = NoFlush
    /\ iterator = NoIterator
    /\ encoder = NoEncoder
    /\ StorageFormatV2Enabled = TRUE
    /\ last = NoCall
    /\ tx = NewTx(registers)

\* One transaction that reads the domain maps of both accounts, creates
\* values, schedules migrations, commits and checks the health of the
\* storage.
NextRoots ==
    \/ \E a \in Addresses, d \in Domains :
           Alive /\ DoGetDomainStorageMap(a, d, FALSE)
    \/ \E a \in Addresses : Alive /\ DoScheduleV2Migration(a)
    \/ Alive /\ DoStoreTempSlab
    \/ Alive /\ DoCommit(FALSE)
    \/ Alive /\ DoCheckHealth

SpecRoots == InitRoots /\ [][NextRoots]_vars

(***************************************************************************)
(* The slab flush of a commit, step by step                                *)
(***************************************************************************)

\* The dirty slabs that FastCommit flushes: those of accounts.
OwnedDeltaKeys(s) == {id \in DOMAIN s.deltas : id[1] # TempAddress}

\* Variant of NextWrite: the encoded slab with the greatest slab ID that
\* is not yet written.
NextWrite_AnyEncoded(f) ==
    SortedIDs({f.jobs[i] : i \in DOMAIN f.jobs}
                  \ {f.writes[i] : i \in DOMAIN f.writes})[
        Len(f.jobs) - Len(f.writes)]

\* FastCommit, the slab written next: the encoded slabs are written in the
\* order of the sorted keys.
NextWrite(f) == f.jobs[Len(f.writes) + 1]

\* The facade state, unchanged by a step of the flush.
FacadeUnchanged ==
    UNCHANGED <<registers, nextIndex, cachedDomainStorageMaps,
                cachedV1Accounts, contractUpdates, scheduledV2Migrations,
                StorageFormatV2Enabled, cachedAccountStorageMaps, iterator,
                encoder, last, tx>>

\* FastCommit starts: the keys of the dirty slabs are sorted and queued as
\* jobs for the workers.
StartFlush ==
    /\ flush.stage = "idle"
    /\ flush' = [flush EXCEPT !.stage = "encoding",
                     !.jobs = SortedIDs(OwnedDeltaKeys(St)),
                     !.expect = [slabs |-> FastCommit(St).slabs,
                                 deltas |-> FastCommit(St).deltas]]
    /\ FacadeUnchanged
    /\ UNCHANGED <<ledgerSlabs, deltas, slabCache>>

\* A worker takes the next job from the queue.
TakeJob(w) ==
    /\ flush.stage = "encoding"
    /\ flush.pc[w] = NoSlab
    /\ flush.taken < Len(flush.jobs)
    /\ flush' = [flush EXCEPT !.taken = @ + 1,
                     !.pc[w] = flush.jobs[flush.taken + 1]]
    /\ FacadeUnchanged
    /\ UNCHANGED <<ledgerSlabs, deltas, slabCache>>

\* A worker has encoded its slab and hands the result over.
EncodeSlab(w) ==
    /\ flush.stage = "encoding"
    /\ flush.pc[w] # NoSlab
    /\ flush' = [flush EXCEPT !.pc[w] = NoSlab,
                     !.encoded = Put(@, flush.pc[w], deltas[flush.pc[w]])]
    /\ FacadeUnchanged
    /\ UNCHANGED <<ledgerSlabs, deltas, slabCache>>

\* FastCommit has received the result of every job: the workers are done.
JoinWorkers ==
    /\ flush.stage = "encoding"
    /\ DOMAIN flush.encoded = {flush.jobs[i] : i \in DOMAIN flush.jobs}
    /\ flush' = [flush EXCEPT !.stage = "writing"]
    /\ FacadeUnchanged
    /\ UNCHANGED <<ledgerSlabs, deltas, slabCache>>

WriteStep2(id) ==
    /\ ledgerSlabs' = Put(ledgerSlabs, id, flush.encoded[id])
    /\ flush' = [flush EXCEPT !.writes = Append(@, id)]

\* FastCommit writes the next encoded slab to the ledger.
WriteSlab ==
    /\ flush.stage = "writing"
    /\ Len(flush.writes) < Len(flush.jobs)
    /\ WriteStep2(NextWrite(flush))
    /\ FacadeUnchanged
    /\ UNCHANGED <<deltas, slabCache>>

\* FastCommit returns: the written slabs move from the delta buffer to the
\* read cache, and Commit returns.
ReturnFlush ==
    /\ flush.stage = "writing"
    /\ Len(flush.writes) = Len(flush.jobs)
    /\ flush' = [flush EXCEPT !.stage = "returned"]
    /\ deltas' = [id \in DOMAIN deltas \ OwnedDeltaKeys(St) |-> deltas[id]]
    /\ slabCache' = slabCache \cup OwnedDeltaKeys(St)
    /\ FacadeUnchanged
    /\ UNCHANGED ledgerSlabs

\* The facade of a transaction that created the domains ds[a] of every
\* account a, at the slab flush of its commit.
FlushState(v2, ds) ==
    BeforeFlushOf(CreateAccounts(EmptyLedgerState(v2), SortedSeq(Addresses), ds))

InitFlush ==
    /\ \E v2 \in BOOLEAN, ds \in [Addresses -> SeedDomains] :
           /\ InitLedger(FlushState(v2, ds))
           /\ deltas = FlushState(v2, ds).deltas
           /\ cachedDomainStorageMaps = FlushState(v2, ds).cdm
           /\ cachedV1Accounts = FlushState(v2, ds).cv1
           /\ cachedAccountStorageMaps = FlushState(v2, ds).cam
           /\ StorageFormatV2Enabled = v2
    /\ contractUpdates = <<>>
    /\ scheduledV2Migrations = <<>>
    /\ slabCache = {}
    /\ flush = NoFlush
    /\ iterator = NoIterator
    /\ encoder = NoEncoder
    /\ last = NoCall
    /\ tx = NewTx(registers)

NextFlush ==
    \/ StartFlush
    \/ \E w \in Workers : TakeJob(w)
    \/ \E w \in Workers : EncodeSlab(w)
    \/ JoinWorkers
    \/ WriteSlab
    \/ ReturnFlush

SpecFlush == InitFlush /\ [][NextFlush]_vars

Spec == Init /\ [][Next]_vars

(***************************************************************************)
(* Transactions on accounts that may be empty                              *)
(***************************************************************************)

\* A new facade over the ledger an earlier transaction left under the same
\* configuration: the other account has no register and no slab, and the
\* seeded account has none either when no domain of it was created.
InitEmpty ==
    /\ \E v2 \in BOOLEAN, ds \in SeedDomains :
           /\ InitLedger(SeedLedger(v2, ds))
           /\ StorageFormatV2Enabled = v2
    /\ deltas = <<>>
    /\ cachedDomainStorageMaps = <<>>
    /\ cachedV1Accounts = <<>>
    /\ contractUpdates = <<>>
    /\ scheduledV2Migrations = <<>>
    /\ cachedAccountStorageMaps = <<>>
    /\ slabCache = {}
    /\ flush = NoFlush
    /\ iterator = NoIterator
    /\ encoder = NoEncoder
    /\ last = NoCall
    /\ tx = NewTx(registers)

\* Transactions that read and create the domain maps of both accounts,
\* write values into the other account, commit and check the health of the
\* storage.
NextEmpty ==
    \/ \E a \in Addresses, d \in Domains, c \in BOOLEAN :
           Alive /\ DoGetDomainStorageMap(a, d, c)
    \/ \E k \in Names, v \in Values :
           Alive /\ DoWriteValue(OtherAddress, "storage", k, v)
    \/ Alive /\ DoCommit(FALSE)
    \/ Alive /\ DoCheckHealth
    \/ Reopen(StorageFormatV2Enabled)

SpecEmpty == InitEmpty /\ [][NextEmpty]_vars

(***************************************************************************)
(* An account storage map by itself                                        *)
(***************************************************************************)

\* The account storage map under test: the one of the seeded account.
TestMap == cachedAccountStorageMaps[SeedAddress]

\* interpreter.NewAccountStorageMap over the slab store of a new facade
\* with an empty ledger: the map is not reached from any register.
NewAccountStorageMap ==
    storeNewAccountStorageMap(EmptyLedgerState(TRUE), SeedAddress,
                              NewSlabID(EmptyLedgerState(TRUE), SeedAddress))

InitAccountMap ==
    /\ InitLedger(NewAccountStorageMap)
    /\ deltas = NewAccountStorageMap.deltas
    /\ cachedDomainStorageMaps = <<>>
    /\ cachedV1Accounts = <<>>
    /\ contractUpdates = <<>>
    /\ scheduledV2Migrations = <<>>
    /\ cachedAccountStorageMaps = NewAccountStorageMap.cam
    /\ slabCache = {}
    /\ flush = NoFlush
    /\ iterator = NoIterator
    /\ encoder = NoEncoder
    /\ StorageFormatV2Enabled = TRUE
    /\ last = NoCall
    /\ tx = NewTx(registers)

\* A slab can still be allocated for the account.
CanAllocate == nextIndex[SeedAddress] <= MaxSlabs

MapStep(s, op, d, createIfNotExists, result, existed) ==
    /\ SetState(s)
    /\ last' = [NoCall EXCEPT !.op = op, !.address = SeedAddress,
                    !.domain = d, !.create = createIfNotExists,
                    !.result = result, !.existed = existed,
                    !.removed = (DOMAIN deltas) \ DOMAIN s.deltas]
    /\ UNCHANGED tx

NewDomainStep(r, d) == MapStep(r.s, "newDomain", d, FALSE, r.result, FALSE)

\* AccountStorageMap.NewDomain, called for a domain that does not exist.
DoNewDomain(d) ==
    /\ CanAllocate
    /\ ~AccountMapDomainExists(St, TestMap, d)
    /\ NewDomainStep(AccountMapNewDomain(St, SeedAddress, TestMap, d,
                                         NewSlabID(St, SeedAddress)), d)

GetDomainStep(r, d, createIfNotExists) ==
    MapStep(r.s, "getDomain", d, createIfNotExists, r.result, FALSE)

\* AccountStorageMap.GetDomain
DoGetDomain(d, createIfNotExists) ==
    /\ (createIfNotExists /\ ~AccountMapDomainExists(St, TestMap, d))
           => CanAllocate
    /\ GetDomainStep(AccountMapGetDomain(St, SeedAddress, TestMap, d,
                                         createIfNotExists),
                     d, createIfNotExists)

WriteDomainStep(r, d, m) ==
    MapStep(r.s, "writeDomain", d, FALSE, m, r.existed)

\* AccountStorageMap.WriteDomain with a new domain storage map that holds
\* the given entries.
DoWriteDomain(d, entries) ==
    /\ CanAllocate
    /\ WriteDomainStep(
           AccountMapWriteDomain(
               AllocateSlab(St, SeedAddress,
                            [EmptyDomainMap EXCEPT !.entries = entries]),
               SeedAddress, TestMap, d, NewSlabID(St, SeedAddress)),
           d, NewSlabID(St, SeedAddress))

\* AccountStorageMap.WriteDomain with nil: the domain is removed.
DoRemoveDomain(d) ==
    WriteDomainStep(AccountMapWriteDomain(St, SeedAddress, TestMap, d, NoSlab),
                    d, NoSlab)

\* A value is written into the domain storage map of an existing domain.
DoWriteDomainValue(d, k, v) ==
    /\ AccountMapDomainExists(St, TestMap, d)
    /\ MapStep(WriteValueOver(St, SeedAddress,
                              <<SeedAddress, LoadSlab(St, TestMap).domains[d]>>,
                              k, v),
               "write", d, FALSE, NoSlab, FALSE)

\* A value that is stored in its own slab is written into the domain
\* storage map of an existing domain.
DoWriteLargeValue(d, k) ==
    /\ CanAllocate
    /\ AccountMapDomainExists(St, TestMap, d)
    /\ MapStep(WriteLargeValue(St, SeedAddress,
                               <<SeedAddress, LoadSlab(St, TestMap).domains[d]>>,
                               k),
               "writeLarge", d, FALSE, NoSlab, FALSE)

StorageUnchanged ==
    UNCHANGED <<registers, ledgerSlabs, nextIndex, deltas,
                cachedDomainStorageMaps, cachedV1Accounts, contractUpdates,
                scheduledV2Migrations, StorageFormatV2Enabled,
                cachedAccountStorageMaps, slabCache, flush, encoder, tx>>

\* AccountStorageMap.Iterator: the map holds its keys in some order.
DoIterator ==
    /\ \E order \in Orders(AccountMapDomains(St, TestMap)) :
           iterator' = AccountMapIterator(order)
    /\ last' = [NoCall EXCEPT !.op = "iterator", !.address = SeedAddress]
    /\ StorageUnchanged

IteratorStep(r) ==
    /\ iterator' = r.it
    /\ last' = [NoCall EXCEPT !.op = "next", !.address = SeedAddress,
                    !.domain = r.domain, !.result = r.result]
    /\ StorageUnchanged

\* AccountStorageMapIterator.Next
DoIteratorNext ==
    /\ iterator.open
    /\ IteratorStep(IteratorNext(St, SeedAddress, TestMap, iterator))

\* The iterator is dropped.
DoIteratorDone ==
    /\ iterator.open
    /\ iterator' = NoIterator
    /\ last' = [NoCall EXCEPT !.op = "iteratorDone", !.address = SeedAddress]
    /\ StorageUnchanged

\* The map is not changed while an iterator over it is in use.
NextAccountMap ==
    \/ \E d \in Domains : ~iterator.open /\ DoNewDomain(d)
    \/ \E d \in Domains, c \in BOOLEAN : ~iterator.open /\ DoGetDomain(d, c)
    \/ \E d \in Domains, k \in Names, v \in Values :
           ~iterator.open /\ DoWriteDomain(d, Put(EmptyMap, k, v))
    \/ \E d \in Domains : ~iterator.open /\ DoRemoveDomain(d)
    \/ \E d \in Domains, k \in Names, v \in Values \cup {Nil} :
           ~iterator.open /\ DoWriteDomainValue(d, k, v)
    \/ \E d \in Domains, k \in Names :
           ~iterator.open /\ DoWriteLargeValue(d, k)
    \/ ~iterator.open /\ DoIterator
    \/ DoIteratorNext
    \/ DoIteratorDone

SpecAccountMap == InitAccountMap /\ [][NextAccountMap]_vars

(***************************************************************************)
(* Encoding of the legacy link values                                      *)
(***************************************************************************)

\* The CBOR tag numbers of the two legacy link values, as bytes.
CBORTagPathLinkValue == "CBORTagPathLinkValue"

CBORTagAccountLinkValue == "CBORTagAccountLinkValue"

\* The target paths and the types of the path link values encoded.
TargetPaths == {"path1", "path2", "path3"}

StaticTypes == {"type1", "type2"}

\* The steps of an Encode call at which the encoder may return an error.
EncodeFailures == {"", "head", "path", "type"}

\* e.CBOR.EncodeRawBytes: the bytes are appended, or an error is returned.
EncodeRawBytes(e, bytes, fails) ==
    IF fails THEN [e |-> e, err |-> "encode"]
    ELSE [e |-> [e EXCEPT !.buf = @ \o bytes], err |-> ""]

\* After an error the Encode call returns it; else the next field is
\* encoded.
EncodeNext(r, bytes, fails) ==
    IF r.err # "" THEN r ELSE EncodeRawBytes(r.e, bytes, fails)

\* PathValue.Encode and StaticType.Encode: the bytes of the field.
PathValueEncode(r, targetPath, fails) ==
    EncodeNext(r, <<"path", targetPath>>, fails)

StaticTypeEncode(r, type, fails) ==
    EncodeNext(r, <<"type", type>>, fails)

\* Variant of PathLinkValue.Encode: the tag is not written.
PathLinkValueEncode_NoTag(e, v, failure) ==
    StaticTypeEncode(
        PathValueEncode(
            EncodeRawBytes(e, <<"0x82">>, failure = "head"),
            v.TargetPath, failure = "path"),
        v.Type, failure = "type")

\* PathLinkValue.Encode: the tag number and the array head, then the
\* target path, then the type.
PathLinkValueEncode(e, v, failure) ==
    StaticTypeEncode(
        PathValueEncode(
            EncodeRawBytes(e, <<"0xd8", CBORTagPathLinkValue, "0x82">>,
                           failure = "head"),
            v.TargetPath, failure = "path"),
        v.Type, failure = "type")

\* The tag and null.
cborAccountLinkValue == <<"0xd8", CBORTagAccountLinkValue, "0xf6">>

\* AccountLinkValue.Encode
AccountLinkValueEncode(e, failure) ==
    EncodeRawBytes(e, cborAccountLinkValue, failure = "head")

\* The call appended the bytes after the first written bytes of the buffer.
EncodeStep(r, kind, written) ==
    /\ encoder' = [r.e EXCEPT !.calls = @ + 1]
    /\ last' = [NoCall EXCEPT !.op = "encode", !.domain = kind,
                    !.err = r.err,
                    !.log = SubSeq(r.e.buf, written + 1, Len(r.e.buf))]
    /\ UNCHANGED <<registers, ledgerSlabs, nextIndex, deltas,
                   cachedDomainStorageMaps, cachedV1Accounts, contractUpdates,
                   scheduledV2Migrations, StorageFormatV2Enabled,
                   cachedAccountStorageMaps, slabCache, flush, iterator, tx>>

DoEncodePathLinkValue(v, failure) ==
    /\ encoder.calls < MaxEncodes
    /\ EncodeStep(PathLinkValueEncode(encoder, v, failure), "PathLinkValue",
                  Len(encoder.buf))

DoEncodeAccountLinkValue(failure) ==
    /\ encoder.calls < MaxEncodes
    /\ EncodeStep(AccountLinkValueEncode(encoder, failure), "AccountLinkValue",
                  Len(encoder.buf))

\* A new encoder; the storage is not involved.
InitLink ==
    /\ InitLedger(EmptyLedgerState(TRUE))
    /\ deltas = <<>>
    /\ cachedDomainStorageMaps = <<>>
    /\ cachedV1Accounts = <<>>
    /\ contractUpdates = <<>>
    /\ scheduledV2Migrations = <<>>
    /\ cachedAccountStorageMaps = <<>>
    /\ slabCache = {}
    /\ flush = NoFlush
    /\ iterator = NoIterator
    /\ encoder = NoEncoder
    /\ StorageFormatV2Enabled = TRUE
    /\ last = NoCall
    /\ tx = NewTx(registers)

NextLink ==
    \/ \E targetPath \in TargetPaths, type \in StaticTypes,
           failure \in EncodeFailures :
           DoEncodePathLinkValue([Type |-> type, TargetPath |-> targetPath],
                                 failure)
    \/ \E failure \in {"", "head"} : DoEncodeAccountLinkValue(failure)

SpecLink == InitLink /\ [][NextLink]_vars

(***************************************************************************)
(* Properties of the format detection and of the dispatch                  *)
(***************************************************************************)

HasStored(reg, a) == reg[a][AccountStorageKey] # NoIndex

HasV1Register(reg, a) == \E d \in Domains : reg[a][d] # NoIndex

\* The last operation was a commit that returned no error.
Committed == last.op = "commit" /\ last.err = "" /\ ~last.panic

\* The log holds an entry of the given kind.
Logged(log, kind) == \E i \in DOMAIN log : log[i][1] = kind

\* The step is a call of GetDomainStorageMap that missed the domain map cache.
GetMissed ==
    /\ last'.op = "get"
    /\ <<last'.address, last'.domain>> \notin DOMAIN cachedDomainStorageMaps

PriorityFormat(reg, a, d, createIfNotExists) ==
    IF reg[a][AccountStorageKey] # NoIndex THEN StorageFormatV2
    ELSE IF reg[a][d] # NoIndex THEN storageFormatV1
    ELSE IF ~createIfNotExists THEN storageFormatUnknown
    ELSE IF \E other \in Domains : reg[a][other] # NoIndex
    THEN storageFormatV1
    ELSE storageFormatNew

\* The layer the call is dispatched to for a storage format.
LayerOfFormat(format) ==
    IF format = storageFormatUnknown THEN "none"
    ELSE IF format = storageFormatV1 THEN "v1"
    ELSE "v2"

\* C2: with V2 enabled and an address that is not in the V1-flag cache, the
\* format is decided in the order: "stored" register present, V2; else the
\* register of the requested domain present, V1; else, without
\* createIfNotExists, unknown and the call returns nil; else any V1 domain
\* register present, V1; else new, which is dispatched to the V2 layer.
C2_ProbePriority ==
    [][(GetMissed /\ StorageFormatV2Enabled
            /\ last'.address \notin DOMAIN cachedV1Accounts)
        => /\ last'.format = PriorityFormat(registers, last'.address,
                                            last'.domain, last'.create)
           /\ last'.layer = LayerOfFormat(last'.format)
           /\ (last'.format = storageFormatUnknown => last'.result = NoSlab)
      ]_vars

\* A create call found the account to be V1 by a register of another domain.
C2_Witness ==
    /\ last.op = "get"
    /\ last.create
    /\ StorageFormatV2Enabled
    /\ last.format = storageFormatV1
    /\ Len(last.probe) > 2
    /\ last.layer = "v1"

\* The registers read by the format detection of a negative read.
TwoReads(a, d) == << <<"read", a, AccountStorageKey, 0>>, <<"read", a, d, 0>> >>

\* C3: with V2 enabled, GetDomainStorageMap without createIfNotExists on an
\* uncached address that has neither the "stored" register nor the V1
\* register of the requested domain returns nil after exactly two register
\* reads, "stored" then the requested domain, even if the address has a V1
\* register of another domain.
C3_NegativeReadTwoReads ==
    [][(GetMissed /\ StorageFormatV2Enabled /\ ~last'.create
            /\ last'.address \notin DOMAIN cachedV1Accounts
            /\ registers[last'.address][AccountStorageKey] = NoIndex
            /\ registers[last'.address][last'.domain] = NoIndex)
        => /\ last'.result = NoSlab
           /\ last'.log = TwoReads(last'.address, last'.domain)
      ]_vars

\* A negative read on an address that has a V1 register of another domain.
C3_Witness ==
    /\ last.op = "get"
    /\ ~last.create
    /\ StorageFormatV2Enabled
    /\ last.result = NoSlab
    /\ last.log = TwoReads(last.address, last.domain)
    /\ HasV1Register(registers, last.address)

\* The step is a call of GetDomainStorageMap without createIfNotExists that
\* returned nil.
NegativeRead ==
    last'.op = "get" /\ ~last'.create /\ last'.result = NoSlab

CreateInNewAccount ==
    /\ GetMissed
    /\ last'.create
    /\ StorageFormatV2Enabled
    /\ \A k \in RegisterKeys : registers[last'.address][k] = NoIndex

\* The address is marked as not V1 and has no V1 domain register.
NotV1(cv1, reg, a) ==
    /\ a \in DOMAIN cv1
    /\ ~cv1[a]
    /\ ~HasV1Register(reg, a)

C6_CachedV1NoProbe ==
    [][(GetMissed /\ StorageFormatV2Enabled
            /\ last'.address \in DOMAIN cachedV1Accounts
            /\ cachedV1Accounts[last'.address])
        => /\ last'.format = storageFormatV1
           /\ last'.probe = <<>>
           /\ last'.layer = "v1"
      ]_vars

\* A call for a cached V1 address was answered from the V1-flag cache.
C6_Witness ==
    /\ last.op = "get"
    /\ StorageFormatV2Enabled
    /\ last.format = storageFormatV1
    /\ last.probe = <<>>
    /\ last.layer = "v1"

ReadsStored(log) ==
    \E i \in DOMAIN log : log[i][1] = "read" /\ log[i][3] = AccountStorageKey

\* C8: with V2 disabled, every GetDomainStorageMap call that misses the
\* domain map cache is delegated to the V1 layer; the "stored" register is
\* never read and the V2 layer is never invoked.
C8_V2DisabledAlwaysV1 ==
    ~StorageFormatV2Enabled
        => /\ (last.op = "get" => last.layer \in {"cache", "v1"})
           /\ last.format = NoFormat
           /\ ~ReadsStored(last.log)
           /\ cachedAccountStorageMaps = <<>>

\* With V2 disabled, a domain map of an account that has the "stored"
\* register was created by the V1 layer.
C8_Witness ==
    /\ ~StorageFormatV2Enabled
    /\ last.op = "get"
    /\ last.layer = "v1"
    /\ last.result # NoSlab
    /\ HasStored(registers, last.address)

(***************************************************************************)
(* Properties of the deferred contract updates                             *)
(***************************************************************************)

ContractKeys == Addresses \X Names

\* The value under key k of the map a GetDomainStorageMap call returned.
ValueIn(g, k) ==
    IF g.result = NoSlab THEN None ELSE ReadValue(g.s, g.result, k)

\* What a read through the facade in state s returns for the contract key.
Visible(s, key) ==
    ValueIn(GetDomainStorageMap(s, key[1], StorageDomainContract, FALSE),
            key[2])

\* A facade created over the ledger of state s, with the same configuration.
FreshFacade(s) ==
    [s EXCEPT !.deltas = <<>>, !.cdm = <<>>, !.cv1 = <<>>, !.cu = <<>>,
              !.sched = <<>>, !.cam = <<>>, !.cache = {}]

\* What a read through a fresh facade returns for the contract key.
FreshRead(key) == Visible(FreshFacade(St), key)

\* What a read returns once the contract value was written: a nil value
\* removes the key.
Written(contractValue) ==
    IF contractValue = Nil THEN None ELSE contractValue

\* Recording an update, and every GetDomainStorageMap call, leaves what is
\* read for the contract key as it is.
InvisibleUntilCommit(key) ==
    /\ \A a \in Addresses, name \in Names, v \in Values \cup {Nil} :
           Visible(recordContractUpdate(St, a, name, v), key)
               = Visible(St, key)
    /\ \A a \in Addresses, d \in Domains, c \in BOOLEAN :
           Visible(GetDomainStorageMap(St, a, d, c).s, key) = Visible(St, key)

\* After a successful commit that applied the updates, a fresh facade reads
\* the value of every update that was pending.
AppliedByCommit(r, cu) ==
    r.err = ""
        => \A i \in DOMAIN cu :
               Visible(FreshFacade(r.s), cu[i].key) = Written(cu[i].value)

PendingIs(cu, key, contractValue) ==
    /\ \E i \in DOMAIN cu : cu[i].key = key /\ cu[i].value = contractValue
    /\ Cardinality({i \in DOMAIN cu : cu[i].key = key}) = 1

RECURSIVE SetKeys(_)
\* The contract keys written, in the order of the writes.
SetKeys(log) ==
    IF log = <<>> THEN <<>>
    ELSE IF Head(log)[1] = "set"
    THEN << <<Head(log)[2], Head(log)[3]>> >> \o SetKeys(Tail(log))
    ELSE SetKeys(Tail(log))

\* C11: commitContractUpdates writes each distinct recorded key exactly
\* once, in the order in which the keys were first recorded; recording a key
\* again replaces its value and does not move its position.
C11_WritesInFirstRecordOrder ==
    (last.op = "commit" /\ last.create /\ ~last.panic)
        => SetKeys(last.log) = tx.first

\* Two keys were recorded, the first one last with nil, and written by the
\* commit: the first key first.
C11_Witness ==
    /\ Committed
    /\ last.create
    /\ Len(tx.first) = 2
    /\ tx.recorded[tx.first[1]] = Nil
    /\ tx.recorded[tx.first[2]] # Nil
    /\ SetKeys(last.log) = tx.first

AllContractKeys == Addresses \X ContractNames

\* contractUpdateRecorded for the pending updates cu.
Recorded(cu, key) == contractUpdateRecorded([cu |-> cu], key[1], key[2])

\* C12: contractUpdateRecorded(location) returns true iff
\* recordContractUpdate was called earlier on this facade for the same
\* (address, name), also with a nil value; once true it does not become
\* false again, not even after a commit.
C12_RecordedIffCalled ==
    [][/\ \A key \in AllContractKeys :
              Recorded(contractUpdates', key) <=> key \in DOMAIN tx'.recorded
       /\ last'.op # "new"
              => \A key \in AllContractKeys :
                     Recorded(contractUpdates, key)
                         => Recorded(contractUpdates', key)
      ]_vars

\* After a commit that applied a recorded removal, contractUpdateRecorded
\* still returns true for the key.
C12_Witness ==
    /\ Committed
    /\ last.create
    /\ \E key \in AllContractKeys :
           /\ key \in DOMAIN tx.recorded
           /\ tx.recorded[key] = Nil
           /\ Recorded(contractUpdates, key)

(***************************************************************************)
(* Properties of the commit                                                *)
(***************************************************************************)

RECURSIVE Steps(_)
\* The steps a commit entered, in order.
Steps(log) ==
    IF log = <<>> THEN <<>>
    ELSE IF Head(log)[1] = "step" THEN <<Head(log)[3]>> \o Steps(Tail(log))
    ELSE Steps(Tail(log))

\* The steps of a commit that returns no error.
StepsOfCommit(commitContractUpdatesFlag, v2) ==
    (IF commitContractUpdatesFlag THEN <<"contracts">> ELSE <<>>)
        \o <<"v1">>
        \o (IF v2 THEN <<"v2", "migrate">> ELSE <<>>)
        \o <<"flush">>

\* The step in which the i-th entry of the log was made.
StepOf(log, i) ==
    IF \E j \in 1..i : log[j][1] = "step"
    THEN log[CHOOSE j \in 1..i :
                 /\ log[j][1] = "step"
                 /\ \A k \in (j + 1)..i : log[k][1] # "step"][3]
    ELSE ""

\* The steps in which an entry of the log may be made: contract values are
\* set by the contract updates, which may read registers and create a V1
\* domain register; "stored" is written by the V2 layer's commit and by a
\* migration; a V1 domain register is deleted by a migration; slabs are
\* written by the flush.
StepsOfEntry(e) ==
    IF e[1] = "step" THEN {"contracts", "v1", "v2", "migrate", "flush"}
    ELSE IF e[1] \in {"set", "read"} THEN {"contracts"}
    ELSE IF e[1] = "migrate" THEN {"migrate"}
    ELSE IF e[1] \in {"slab", "computation"} THEN {"flush"}
    ELSE IF e[3] = AccountStorageKey THEN {"v2", "migrate"}
    ELSE IF e[4] = NoIndex THEN {"migrate"}
    ELSE {"contracts"}

\* Every effect of the commit was made in the step it belongs to.
EffectsInTheirSteps(log) ==
    \A i \in DOMAIN log : StepOf(log, i) \in StepsOfEntry(log[i])

\* C13: within one commit the steps happen in this order, none reordered or
\* repeated: the contract updates (if requested), the V1 layer's commit, the
\* V2 layer's commit, the scheduled migrations, the slab flush; the V2
\* layer's commit and the migrations run only when V2 is enabled.
C13_CommitOrder ==
    (last.op = "commit" /\ last.err = "" /\ ~last.panic)
        => /\ Steps(last.log) = StepsOfCommit(last.create,
                                              StorageFormatV2Enabled)
           /\ EffectsInTheirSteps(last.log)

\* A commit in which every step had an effect.
C13_Witness ==
    /\ Committed
    /\ last.create
    /\ StorageFormatV2Enabled
    /\ Logged(last.log, "set")
    /\ Logged(last.log, "migrate")
    /\ Logged(last.log, "slab")
    /\ Len(Steps(last.log)) = 5

\* The steps of a commit up to the step that failed.
StepsUntil(commitContractUpdatesFlag, failed) ==
    (IF commitContractUpdatesFlag THEN <<"contracts">> ELSE <<>>)
        \o (IF failed = "v1" THEN <<"v1">>
            ELSE IF failed = "v2" THEN <<"v1", "v2">>
            ELSE <<"v1", "v2", "migrate">>)

\* A commit in which the given step fails returns the error of that step.
ReturnsErrorOf(s, failure, err) ==
    \A commitContractUpdatesFlag \in BOOLEAN :
        commit([s EXCEPT !.fail = failure], commitContractUpdatesFlag).err
            = err

\* C14: if a step of the commit fails (the V1 layer's commit, the V2 layer's
\* commit or a migration), commit returns that error and none of the later
\* steps runs; in particular the slabs are not flushed.
C14_ErrorStopsCommit ==
    /\ ReturnsErrorOf(St, "v1", "v1")
    /\ StorageFormatV2Enabled => ReturnsErrorOf(St, "v2", "v2")
    /\ (StorageFormatV2Enabled /\ scheduledV2Migrations # <<>>)
           => ReturnsErrorOf(St, "migrate1", "migrate")
    /\ (last.op = "commit" /\ last.err \in {"v1", "v2", "migrate"})
           => /\ Steps(last.log) = StepsUntil(last.create, last.err)
              /\ EffectsInTheirSteps(last.log)
              /\ ~Logged(last.log, "slab")

\* The second migration of a commit failed after the first one was done:
\* the slabs were not flushed.
C14_Witness ==
    /\ last.op = "commit"
    /\ last.err = "migrate"
    /\ Logged(last.log, "migrate")
    /\ ~Logged(last.log, "slab")
    /\ deltas # <<>>

\* C15: if Commit returns an error, no ledger register (V1 domain register,
\* "stored" register or slab register) differs from its value before that
\* Commit call.
C15_NoPartialCommit ==
    [][(last'.op = "commit" /\ last'.err # "")
        => /\ registers' = registers
           /\ ledgerSlabs' = ledgerSlabs
      ]_vars

(***************************************************************************)
(* Properties of the migration                                             *)
(***************************************************************************)

RECURSIVE MigratedAddresses(_)
\* The addresses the account migrator was invoked for, in order.
MigratedAddresses(log) ==
    IF log = <<>> THEN <<>>
    ELSE IF Head(log)[1] = "migrate"
    THEN <<Head(log)[2]>> \o MigratedAddresses(Tail(log))
    ELSE MigratedAddresses(Tail(log))

Occurrences(seq, x) == Cardinality({i \in DOMAIN seq : seq[i] = x})

\* seq holds the elements of sched, as often as sched, in ascending order.
AscendingOrderOf(seq, sched) ==
    /\ \A x \in Addresses : Occurrences(seq, x) = Occurrences(sched, x)
    /\ \A i \in 1..(Len(seq) - 1) : seq[i] <= seq[i + 1]

\* C16: for every set of scheduled addresses and every order in which they
\* were scheduled, migrateV1AccountsToV2 invokes the account migrator in
\* ascending address order.
C16_MigrationInAddressOrder ==
    StorageFormatV2Enabled
        => AscendingOrderOf(
               MigratedAddresses(migrateV1AccountsToV2(St).s.log),
               scheduledV2Migrations)

\* Two addresses were scheduled in descending order and are migrated in
\* ascending order.
C16_Witness ==
    /\ StorageFormatV2Enabled
    /\ Len(scheduledV2Migrations) = 2
    /\ scheduledV2Migrations[1] > scheduledV2Migrations[2]
    /\ MigratedAddresses(migrateV1AccountsToV2(St).s.log)
           = <<scheduledV2Migrations[2], scheduledV2Migrations[1]>>

\* The address is a V2 account in the ledger of s, is marked as V2, and its
\* account map is cached and flushed.
MigratedIn(s, a) ==
    /\ ~HasV1Register(s.reg, a)
    /\ HasStored(s.reg, a)
    /\ a \in DOMAIN s.cv1
    /\ ~s.cv1[a]
    /\ LookupSlab(s.cam, a) = <<a, s.reg[a][AccountStorageKey]>>
    /\ <<a, s.reg[a][AccountStorageKey]>> \in DOMAIN s.slabs

\* After a commit without error, the scheduled addresses are migrated and
\* the scheduled list is empty.
MigratedByCommit(r, sched) ==
    r.err = ""
        => /\ r.s.sched = <<>>
           /\ \A i \in DOMAIN sched : MigratedIn(r.s, sched[i])

\* C17: after a successful commit with V2 enabled, every address that was
\* scheduled for migration has no V1 domain register and has the "stored"
\* register, is marked V2 in the flag cache and has its new account map
\* cached in the V2 layer, and the scheduled list is empty.
C17_ScheduledAreMigrated ==
    StorageFormatV2Enabled
        => \A commitContractUpdatesFlag \in BOOLEAN :
               MigratedByCommit(commit(St, commitContractUpdatesFlag),
                                scheduledV2Migrations)

\* A commit migrated every account.
C17_Witness ==
    /\ Committed
    /\ StorageFormatV2Enabled
    /\ scheduledV2Migrations = <<>>
    /\ MigratedAddresses(last.log) = SortedSeq(Addresses)
    /\ \A a \in Addresses : MigratedIn(St, a)

\* The domain storage map of (a, d) that a migration of a has to keep: the
\* cached one, else the one of the V1 register, else none.
MapToMigrate(s, a, d) ==
    IF LookupSlab(s.cdm, <<a, d>>) # NoSlab THEN s.cdm[<<a, d>>]
    ELSE IF s.reg[a][d] # NoIndex THEN <<a, s.reg[a][d]>>
    ELSE NoSlab

\* The account map am of the migrated state m holds exactly the maps to
\* migrate of state s, and these hold what they held.
PreservedBy(m, s, a, am) ==
    /\ m.result = am
    /\ DOMAIN LoadSlab(m.s, am).domains
           = {d \in Domains : MapToMigrate(s, a, d) # NoSlab}
    /\ \A d \in DOMAIN LoadSlab(m.s, am).domains :
           /\ <<a, LoadSlab(m.s, am).domains[d]>> = MapToMigrate(s, a, d)
           /\ LoadSlab(m.s, MapToMigrate(s, a, d))
                  = LoadSlab(s, MapToMigrate(s, a, d))

\* C18: migrating an account preserves its data: each domain that had a V1
\* register or a cached domain map is present in the new account map with
\* identical entries, the cached domain map is used instead of the one of
\* the V1 register whenever one is cached, and no other domain appears in
\* the account map.
C18_MigrationPreservesData ==
    StorageFormatV2Enabled
        => \A a \in Addresses :
               PreservedBy(MigrateAccount(St, a, NewSlabID(St, a)), St, a,
                           NewSlabID(St, a))

\* A commit wrote a contract value into the cached contract map of a V1
\* account and then migrated the account: a fresh facade reads the value
\* from the V2 account.
C18_Witness ==
    /\ Committed
    /\ last.create
    /\ Logged(last.log, "set")
    /\ Logged(last.log, "migrate")
    /\ HasStored(registers, SeedAddress)
    /\ \E name \in Names : FreshRead(<<SeedAddress, name>>) \in Values

\* C19: if at least one address has been scheduled with ScheduleV2Migration
\* while StorageFormatV2Enabled is false, Commit fails with an error
\* instead of succeeding.  (The scheduled list is left as it is by a commit
\* with V2 disabled, so it is the list the commit was called with.)
C19_DisabledMigrationFailsCommit ==
    (last.op = "commit" /\ ~StorageFormatV2Enabled
         /\ scheduledV2Migrations # <<>>)
        => last.err # ""

\* The cached V1 addresses with unsaved changes in the slab store.
ModifiedV1Accounts(s) ==
    {a \in DOMAIN s.cv1 : s.cv1[a] /\ HasUnsavedChanges(s, a)}

\* The elements of seq that are in S, in the order of seq.
Restrict(seq, S) == SelectSeq(seq, LAMBDA x : x \in S)

\* State r is state s with exactly the modified V1 accounts of s appended
\* to the scheduled list, each once, in the order they were visited.
SchedulesExactlyModified(r, s, order) ==
    /\ r.sched = s.sched \o Restrict(order, ModifiedV1Accounts(s))
    /\ [r EXCEPT !.sched = <<>>] = [s EXCEPT !.sched = <<>>]

\* C20: ScheduleV2MigrationForModifiedAccounts schedules exactly the
\* addresses whose V1-flag cache entry is true and for which the slab store
\* has unsaved changes; it never schedules an address cached as V2, an
\* uncached address, or a cached V1 address without unsaved changes, and it
\* changes no other state.
C20_SchedulesModifiedV1Accounts ==
    \A order \in Orders(DOMAIN cachedV1Accounts) :
        SchedulesExactlyModified(
            ScheduleV2MigrationForModifiedAccounts(St, order), St, order)

\* The call scheduled a cached V1 address with unsaved changes and left
\* out another cached V1 address, which has none.
C20_Witness ==
    /\ last.op = "scheduleModified"
    /\ \E a, b \in DOMAIN cachedV1Accounts :
           /\ cachedV1Accounts[a] /\ cachedV1Accounts[b]
           /\ HasUnsavedChanges(St, a)
           /\ ~HasUnsavedChanges(St, b)
           /\ scheduledV2Migrations = <<a>>

(***************************************************************************)
(* Properties of repeated commits and of the health check                  *)
(***************************************************************************)

\* The log holds a write of a register or of a slab to the ledger.
LedgerWrites(log) == Logged(log, "write") \/ Logged(log, "slab")

\* The commit r succeeded and the same commit, called again on its state,
\* writes nothing to the ledger.
SecondCommitWritesNothing(r, commitContractUpdatesFlag) ==
    (r.err = "" /\ ~r.s.panic)
        => ~LedgerWrites(commit([r.s EXCEPT !.log = <<>>],
                                commitContractUpdatesFlag).s.log)

\* C21: if Commit succeeds and is called again with the same arguments with
\* no facade operation in between, the second call performs no ledger
\* writes, also when commitContractUpdates is true and contract updates
\* were recorded before the first commit.
C21_SecondCommitIsNoOp ==
    \A commitContractUpdatesFlag \in BOOLEAN :
        SecondCommitWritesNothing(commit(St, commitContractUpdatesFlag),
                                  commitContractUpdatesFlag)

\* State h of the facade after CheckHealth differs from state s before it
\* in nothing but the registers read and the slabs in the read cache.
PureFrom(h, s) ==
    /\ h.reg = s.reg
    /\ h.slabs = s.slabs
    /\ h.next = s.next
    /\ h.cv1 = s.cv1
    /\ h.cdm = s.cdm
    /\ h.cam = s.cam
    /\ h.cu = s.cu
    /\ h.sched = s.sched
    /\ h.deltas = s.deltas
    /\ ~LedgerWrites(h.log)

\* C22: CheckHealth is pure: whether it returns nil or an error, it writes
\* no ledger register and leaves the V1-flag cache, the domain-map cache,
\* the recorded contract updates, the scheduled migration list and the
\* slab delta buffer unchanged.
C22_CheckHealthPure == PureFrom(CheckHealth(St).s, St)

\* CheckHealth returned an error for a facade with cached domain maps,
\* dirty slabs and a recorded contract update.
C22_Witness ==
    /\ last.op = "health"
    /\ last.err # ""
    /\ cachedDomainStorageMaps # <<>>
    /\ deltas # <<>>
    /\ contractUpdates # <<>>

\* C23: starting from a healthy ledger (no account has both the "stored"
\* register and a V1 domain register), after any sequence of facade
\* operations followed by a successful Commit, CheckHealth on the same
\* facade returns no error.
C23_HealthyAfterCommit ==
    (tx.exclusive /\ Committed /\ ~last.panic) => CheckHealth(St).err = ""

\* The expected roots: the roots of the cached account maps, and the cached
\* domain maps of the addresses that have a V1 domain register.
ExpectedRoots ==
    {cachedAccountStorageMaps[a] : a \in DOMAIN cachedAccountStorageMaps}
        \cup {cachedDomainStorageMaps[k] :
                  k \in {x \in DOMAIN cachedDomainStorageMaps :
                             HasV1Register(registers, x[1])}}

\* The root slab IDs that the walk of the slab store reports.
WalkRoots == CheckStorageHealth(St).rootSlabIDs

\* C24: CheckHealth returns the error of a dangling reference whenever some
\* expected root, i.e. the root slab ID of a cached V2 account map or of a
\* cached domain map of an address that still has V1 registers, is not
\* among the root slab IDs that the walk of the slab store reports; the
\* cached domain maps of addresses without V1 registers are not expected
\* roots, so that they raise no such error.
C24_DanglingReference ==
    CheckStorageHealth(St).err = ""
        => (CheckHealth(St).err = "non-root"
                <=> \E id \in ExpectedRoots : id \notin WalkRoots)

\* CheckHealth returned the error for a cached domain map that an account
\* map refers to, of an account that has a V1 register as well.
C24_Witness ==
    /\ last.op = "health"
    /\ last.err = "non-root"
    /\ last.result \in ExpectedRoots \ WalkRoots
    /\ HasV1Register(registers, last.result[1])

\* A cached domain map of an account without V1 registers is no root and
\* CheckHealth returned no error.
C24_WitnessNotExpected ==
    /\ last.op = "health"
    /\ last.err = ""
    /\ \E k \in DOMAIN cachedDomainStorageMaps :
           /\ ~HasV1Register(registers, k[1])
           /\ cachedDomainStorageMaps[k] \notin WalkRoots

\* The roots that the walk reports, that do not have the temporary address
\* and that are not expected.
UnreferencedRoots ==
    {id \in WalkRoots : id[1] # TempAddress /\ id \notin ExpectedRoots}

\* The UnreferencedRootSlabsError lists exactly the unreferenced roots,
\* each once, in ascending slab ID order.
ListsUnreferencedRoots ==
    CheckHealth(St).err = "unreferenced"
        => CheckHealth(St).unreferenced = SortedIDs(UnreferencedRoots)

\* C25 as stated: CheckHealth returns UnreferencedRootSlabsError iff some
\* root slab ID with a non-temporary address that the walk reports is not an
\* expected root; the error lists exactly those roots, each once, in
\* ascending slab ID order, and never a root with the temporary address.
C25_UnreferencedIffUnexpectedRoot ==
    CheckStorageHealth(St).err = ""
        => /\ CheckHealth(St).err = "unreferenced" <=> UnreferencedRoots # {}
           /\ ListsUnreferencedRoots

\* C25, amended: CheckHealth returns UnreferencedRootSlabsError iff every
\* expected root is among the roots that the walk reports and some root
\* slab ID with a non-temporary address that the walk reports is not an
\* expected root; the error lists exactly those roots, each once, in
\* ascending slab ID order, and never a root with the temporary address.
C25_UnreferencedUnlessDangling ==
    CheckStorageHealth(St).err = ""
        => /\ CheckHealth(St).err = "unreferenced"
                  <=> /\ ExpectedRoots \subseteq WalkRoots
                      /\ UnreferencedRoots # {}
           /\ ListsUnreferencedRoots

\* CheckHealth returned the error with one unreferenced root while the
\* walk reported a root with the temporary address and an expected root.
C25_Witness ==
    /\ last.op = "health"
    /\ last.err = "unreferenced"
    /\ Len(last.unreferenced) = 1
    /\ TempSlabID \in WalkRoots
    /\ ExpectedRoots # {}

(***************************************************************************)
(* Commit and reopen                                                       *)
(***************************************************************************)

\* The state of the facade in the commit of s, right before the slabs are
\* flushed: what the transaction has made of its maps.
BeforeFlush(s, commitContractUpdatesFlag) ==
    commit([s EXCEPT !.fail = "flush"], commitContractUpdatesFlag).s

\* A fresh facade over the ledger of r finds, for the domain storage key,
\* the map with slab ID id and the content that the map has in state pre.
SameDomainMap(g, r, pre, id) ==
    /\ g.result = id
    /\ id \in DOMAIN r.slabs
    /\ LoadSlab(g.s, id) = LoadSlab(pre, id)

\* A fresh facade over the ledger of r finds, for the address, the account
\* map with slab ID id and the domains that the map has in state pre.
SameAccountMap(g, r, pre, id) ==
    /\ g.result = id
    /\ id \in DOMAIN r.slabs
    /\ LoadSlab(g.s, id) = LoadSlab(pre, id)

\* Every domain map and account map that the facade holds at its commit is
\* found by a fresh facade over the ledger of the commit r, with the same
\* content.
RoundTrip(r, pre) ==
    (r.err = "" /\ ~r.s.panic)
        => /\ \A k \in DOMAIN pre.cdm :
                  SameDomainMap(
                      GetDomainStorageMap(NewStorageOver(r.s, r.s.v2),
                                          k[1], k[2], FALSE),
                      r.s, pre, pre.cdm[k])
           /\ \A a \in DOMAIN r.s.cam :
                  r.s.v2 => SameAccountMap(
                                getAccountStorageMap(
                                    NewStorageOver(r.s, r.s.v2), a),
                                r.s, pre, r.s.cam[a])

SlabIDLess(x, y) == x[1] < y[1] \/ (x[1] = y[1] /\ x[2] < y[2])

\* The slabs written to the ledger so far were written in ascending slab ID
\* order, each once.
WritesAscending ==
    \A i, j \in DOMAIN flush.writes :
        i < j => SlabIDLess(flush.writes[i], flush.writes[j])

\* No worker is at work and no job is left.
WorkersJoined ==
    /\ flush.taken = Len(flush.jobs)
    /\ \A w \in Workers : flush.pc[w] = NoSlab

C27_WitnessInterleaved ==
    /\ flush.stage = "encoding"
    /\ \E w \in Workers, id \in DOMAIN flush.encoded :
           flush.pc[w] # NoSlab /\ SlabIDLess(flush.pc[w], id)

(***************************************************************************)
(* The empty account                                                       *)
(***************************************************************************)

NoRegisters(reg, a) == \A k \in RegisterKeys : reg[a][k] = NoIndex

NoSlabsOf(slabs, a) == \A id \in DOMAIN slabs : id[1] # a

\* The address has no register, and no slab in the ledger or waiting to be
\* written to it.
EmptyAccount(s, a) ==
    /\ NoRegisters(s.reg, a)
    /\ NoSlabsOf(s.slabs, a)
    /\ NoSlabsOf(s.deltas, a)

\* The log holds no write of a register or of a slab of the address.
NoWritesFor(log, a) ==
    \A i \in DOMAIN log : log[i][1] \in {"write", "slab"} => log[i][2] # a

\* The commit r returned no error, wrote nothing for the address and left
\* the storage healthy.
EmptyAfterCommit(r, a) ==
    /\ r.err = ""
    /\ ~r.s.panic
    /\ NoWritesFor(r.s.log, a)
    /\ EmptyAccount(r.s, a)
    /\ CheckHealth(r.s).err = ""

\* GetDomainStorageMap calls without createIfNotExists for the domains d1
\* and d2 of the address, then Commit and CheckHealth: every call returns
\* nil, and nothing is written for the address.
ReadsThenCommit(s, a, d1, d2) ==
    /\ GetDomainStorageMap(s, a, d1, FALSE).result = NoSlab
    /\ GetDomainStorageMap(GetDomainStorageMap(s, a, d1, FALSE).s,
                           a, d2, FALSE).result = NoSlab
    /\ EmptyAfterCommit(
           commit(GetDomainStorageMap(
                      GetDomainStorageMap(s, a, d1, FALSE).s,
                      a, d2, FALSE).s,
                  FALSE),
           a)

\* The step is a GetDomainStorageMap call with createIfNotExists for the
\* address.
CreatesFor(a) ==
    last'.op = "get" /\ last'.create /\ last'.address = a

\* C28: for an address with no registers, GetDomainStorageMap calls with
\* createIfNotExists=false followed by Commit write no register and no slab
\* for that address, and CheckHealth returns no error; the address gets its
\* first slab, and with it its first register, only by a call with
\* createIfNotExists=true.
C28_EmptyAccount ==
    /\ [](\A a \in Addresses :
             EmptyAccount(St, a)
                 => /\ EmptyAfterCommit(commit(St, FALSE), a)
                    /\ \A d1, d2 \in Domains : ReadsThenCommit(St, a, d1, d2))
    /\ [][\A a \in Addresses :
              (EmptyAccount(St, a)
               /\ ~(/\ NoRegisters(registers', a)
                    /\ NoSlabsOf(ledgerSlabs', a)
                    /\ NoSlabsOf(deltas', a)))
                  => CreatesFor(a)
         ]_vars

\* A read of a domain of the empty other account returned nil, while the
\* seeded account has a domain map.
C28_Witness ==
    /\ last.op = "get"
    /\ ~last.create
    /\ last.address = OtherAddress
    /\ last.result = NoSlab
    /\ EmptyAccount(St, OtherAddress)
    /\ ~EmptyAccount(St, SeedAddress)

\* The account that was empty has its root slab in the ledger, after a call
\* with createIfNotExists and a commit.
C28_WitnessCreated ==
    /\ Committed
    /\ OtherAddress \in tx.new
    /\ ~NoSlabsOf(ledgerSlabs, OtherAddress)

(***************************************************************************)
(* The account storage map                                                 *)
(***************************************************************************)

\* The domains for which DomainExists returns true.
ExistingDomains(s, am) == {d \in Domains : AccountMapDomainExists(s, am, d)}

\* GetDomain without createIfNotExists returns a map for the domain.
GetDomainFinds(s, a, am, d) ==
    AccountMapGetDomain(s, a, am, d, FALSE).result # NoSlab

\* C29: on an account storage map, after any sequence of NewDomain,
\* GetDomain and WriteDomain operations, DomainExists(d), GetDomain(d,
\* createIfNotExists=false) != nil and membership of d in Domains() agree
\* for every domain d, Count() is the number of such domains, and GetDomain
\* with createIfNotExists=false does not change the map.
C29_AccountMapViewsAgree ==
    /\ \A d \in Domains :
           /\ AccountMapDomainExists(St, TestMap, d)
                  <=> GetDomainFinds(St, SeedAddress, TestMap, d)
           /\ AccountMapDomainExists(St, TestMap, d)
                  <=> d \in AccountMapDomains(St, TestMap)
           /\ AccountMapGetDomain(St, SeedAddress, TestMap, d, FALSE).s = St
    /\ AccountMapCount(St, TestMap)
           = Cardinality(ExistingDomains(St, TestMap))

\* The domain storage map of one domain was replaced by WriteDomain while
\* the other domain is missing.
C29_Witness ==
    /\ last.op = "writeDomain"
    /\ last.existed
    /\ last.result # NoSlab
    /\ AccountMapCount(St, TestMap) = 1
    /\ \E d \in Domains : ~AccountMapDomainExists(St, TestMap, d)

\* The domain storage map that GetDomain with createIfNotExists returns for
\* domain d in state s, and what the call leaves.
CreateDomainOutcome(s, r, a, am, d) ==
    /\ r.result # NoSlab
    /\ IF AccountMapDomainExists(s, am, d)
       THEN /\ r.result = <<a, LoadSlab(s, am).domains[d]>>
            /\ LoadSlab(r.s, r.result) = LoadSlab(s, r.result)
            /\ AccountMapCount(r.s, am) = AccountMapCount(s, am)
            /\ r.s = s
       ELSE /\ r.result \notin DOMAIN s.deltas
            /\ LoadSlab(r.s, r.result) = EmptyDomainMap
            /\ Cardinality(DOMAIN LoadSlab(r.s, r.result).entries) = 0
            /\ AccountMapGetDomain(r.s, a, am, d, FALSE).result = r.result
            /\ AccountMapCount(r.s, am) = AccountMapCount(s, am) + 1
            /\ \A e \in Domains \ {d} :
                   LookupIndex(LoadSlab(r.s, am).domains, e)
                       = LookupIndex(LoadSlab(s, am).domains, e)

\* C30: GetDomain with createIfNotExists=true always returns a non-nil
\* domain map: for an existing domain it returns that domain's map with its
\* existing entries and leaves Count unchanged; for a missing domain it
\* inserts a new empty domain map (count 0) and Count grows by exactly one.
C30_GetDomainCreates ==
    \A d \in Domains :
        CreateDomainOutcome(
            St,
            AccountMapGetDomain(St, SeedAddress, TestMap, d, TRUE),
            SeedAddress, TestMap, d)

\* GetDomain with createIfNotExists has inserted a domain next to a domain
\* whose map holds an entry.
C30_Witness ==
    /\ last.op = "getDomain"
    /\ last.create
    /\ AccountMapCount(St, TestMap) = 2
    /\ LoadSlab(St, last.result) = EmptyDomainMap
    /\ \E d \in Domains \ {last.domain} :
           LoadSlab(St, <<SeedAddress, LoadSlab(St, TestMap).domains[d]>>).entries
               # EmptyMap

\* The entries of the domain storage map of domain d in the account map am,
\* or none when the domain is absent.
DomainEntries(s, a, am, d) ==
    IF AccountMapDomainExists(s, am, d)
    THEN LoadSlab(s, <<a, LoadSlab(s, am).domains[d]>>).entries
    ELSE None

\* What WriteDomain(d, m) returned and left, when called in state s with a
\* domain storage map m that holds the given entries, or with nil.
WriteDomainOutcome(s, r, a, am, d, m, entries) ==
    /\ r.existed <=> AccountMapDomainExists(s, am, d)
    /\ IF m = NoSlab
       THEN ~AccountMapDomainExists(r.s, am, d)
       ELSE /\ AccountMapDomainExists(r.s, am, d)
            /\ AccountMapGetDomain(r.s, a, am, d, FALSE).result = m
            /\ DomainEntries(r.s, a, am, d) = entries
    /\ \A e \in Domains \ {d} :
           /\ AccountMapDomainExists(r.s, am, e)
                  <=> AccountMapDomainExists(s, am, e)
           /\ DomainEntries(r.s, a, am, e) = DomainEntries(s, a, am, e)

\* The entries of the domain storage maps handed to WriteDomain.
NewMapEntries == {EmptyMap} \cup {Put(EmptyMap, k, v) : k \in Names, v \in Values}

\* C31: WriteDomain(domain, m) returns true iff the domain existed in the
\* account storage map immediately before the call; with a non-nil m the
\* domain afterwards maps to m's entries, replacing any previous map; with
\* nil the domain is absent afterwards; every other domain is unchanged.
C31_WriteDomain ==
    \A d \in Domains :
        /\ WriteDomainOutcome(
               St,
               AccountMapWriteDomain(St, SeedAddress, TestMap, d, NoSlab),
               SeedAddress, TestMap, d, NoSlab, None)
        /\ \A entries \in NewMapEntries :
               WriteDomainOutcome(
                   AllocateSlab(St, SeedAddress,
                                [EmptyDomainMap EXCEPT !.entries = entries]),
                   AccountMapWriteDomain(
                       AllocateSlab(St, SeedAddress,
                                    [EmptyDomainMap EXCEPT !.entries = entries]),
                       SeedAddress, TestMap, d, NewSlabID(St, SeedAddress)),
                   SeedAddress, TestMap, d, NewSlabID(St, SeedAddress),
                   entries)

\* WriteDomain with nil removed an existing domain while the other domain
\* holds a map with an entry.
C31_Witness ==
    /\ last.op = "writeDomain"
    /\ last.existed
    /\ last.result = NoSlab
    /\ ~AccountMapDomainExists(St, TestMap, last.domain)
    /\ \E e \in Domains \ {last.domain} :
           /\ AccountMapDomainExists(St, TestMap, e)
           /\ DomainEntries(St, SeedAddress, TestMap, e) # EmptyMap

\* The domains the iterator has yielded.
YieldedDomains(it) == {it.yielded[i][1] : i \in DOMAIN it.yielded}

\* C32: an account storage map iterator yields every existing domain
\* exactly once together with its non-nil domain map, and after the last
\* domain (immediately, for an empty map) every further Next call returns
\* the empty domain name and a nil map.
C32_IteratorYieldsEachDomainOnce ==
    iterator.open
        => /\ \A i, j \in DOMAIN iterator.yielded :
                  i # j => iterator.yielded[i][1] # iterator.yielded[j][1]
           /\ \A i \in DOMAIN iterator.yielded :
                  /\ AccountMapDomainExists(St, TestMap, iterator.yielded[i][1])
                  /\ iterator.yielded[i][2] # NoSlab
                  /\ iterator.yielded[i][2]
                         = AccountMapGetDomain(St, SeedAddress, TestMap,
                               iterator.yielded[i][1], FALSE).result
           /\ iterator.rest = <<>>
                  => /\ YieldedDomains(iterator) = ExistingDomains(St, TestMap)
                     /\ IteratorNext(St, SeedAddress, TestMap, iterator).domain = ""
                     /\ IteratorNext(St, SeedAddress, TestMap, iterator).result
                            = NoSlab
                     /\ IteratorNext(St, SeedAddress, TestMap, iterator).it
                            = iterator
           /\ last.op = "next"
                  => IF last.domain = ""
                     THEN /\ last.result = NoSlab
                          /\ YieldedDomains(iterator)
                                 = ExistingDomains(St, TestMap)
                     ELSE /\ last.result # NoSlab
                          /\ last.domain
                                 = iterator.yielded[Len(iterator.yielded)][1]

\* The iterator over a map of two domains has yielded both, and the Next
\* call after them returned the empty domain name.
C32_Witness ==
    /\ iterator.open
    /\ last.op = "next"
    /\ last.domain = ""
    /\ Len(iterator.yielded) = 2

\* The first Next call of an iterator over an empty map returned the empty
\* domain name.
C32_WitnessEmpty ==
    /\ iterator.open
    /\ last.op = "next"
    /\ last.domain = ""
    /\ AccountMapCount(St, TestMap) = 0

\* C33: after any sequence of NewDomain, GetDomain and WriteDomain (set,
\* replace, remove) operations on one account storage map, also with domain
\* maps that hold values stored in their own slabs, the health walk of the
\* slab store reports exactly one root slab, the slab of the account
\* storage map: no domain map is a root and no replaced or removed domain
\* map leaves a slab behind.
C33_OnlyRootIsAccountMap ==
    /\ CheckStorageHealth(St).err = ""
    /\ CheckStorageHealth(St).rootSlabIDs = {TestMap}

\* WriteDomain took a domain storage map with a large value out of the
\* account map: its slab and the slab of the value were removed.
C33_Witness ==
    /\ last.op = "writeDomain"
    /\ last.existed
    /\ Cardinality(last.removed) = 2
    /\ CheckStorageHealth(St).rootSlabIDs = {TestMap}

(***************************************************************************)
(* The unreachable branch, the domain map cache, the computation report    *)
(***************************************************************************)

\* The call r of GetDomainStorageMap with createIfNotExists did not get
\* storageFormatUnknown, did not panic and returned a map.
CreatedOrFound(r) ==
    /\ r.format # storageFormatUnknown
    /\ ~r.panic
    /\ r.result # NoSlab

\* C34: the unreachable-state panic is never hit: in every reachable state,
\* GetDomainStorageMap called with createIfNotExists=true never receives
\* storageFormatUnknown from getAccountStorageFormat and always returns a
\* non-nil domain map, so that writeContractUpdate never dereferences a nil
\* map.
C34_CreateNeverUnknown ==
    /\ \A a \in Addresses, d \in Domains :
           CreatedOrFound(GetDomainStorageMap(St, a, d, TRUE))
    /\ \A a \in Addresses, n \in Names, v \in Values \cup {Nil} :
           ~writeContractUpdate(St, <<a, n>>, v).panic
    /\ last.op = "get" /\ last.create
           => /\ last.format # storageFormatUnknown
              /\ ~last.panic
              /\ last.result # NoSlab

\* A call with createIfNotExists went through the format detection, which
\* found an account without registers, and returned a map.
C34_Witness ==
    /\ last.op = "get"
    /\ last.create
    /\ last.format = storageFormatNew
    /\ last.result # NoSlab

\* A call for a key of the domain map cache returns the cached map, reads
\* no register and calls no account layer: it leaves the state as it is.
ServedFromCache(s, key, createIfNotExists) ==
    /\ GetDomainStorageMap(s, key[1], key[2], createIfNotExists).result
           = s.cdm[key]
    /\ GetDomainStorageMap(s, key[1], key[2], createIfNotExists).layer = "cache"
    /\ GetDomainStorageMap(s, key[1], key[2], createIfNotExists).s = s

\* C35: once GetDomainStorageMap has returned a non-nil map for (address,
\* domain), every later call for the same key on the same facade returns
\* that same map without reading any ledger register and without touching
\* either account layer; nil results are never stored, so every entry of
\* the domain map cache is non-nil.
C35_DomainMapCache ==
    /\ [](/\ \A key \in DOMAIN cachedDomainStorageMaps :
                /\ cachedDomainStorageMaps[key] # NoSlab
                /\ \A c \in BOOLEAN : ServedFromCache(St, key, c)
          /\ (last.op = "get" /\ last.result # NoSlab)
                => /\ <<last.address, last.domain>>
                          \in DOMAIN cachedDomainStorageMaps
                   /\ cachedDomainStorageMaps[<<last.address, last.domain>>]
                          = last.result
          /\ (last.op = "get" /\ last.layer = "cache")
                => ~Logged(last.log, "read"))
    /\ [][last'.op # "new"
             => \A key \in DOMAIN cachedDomainStorageMaps :
                    /\ key \in DOMAIN cachedDomainStorageMaps'
                    /\ cachedDomainStorageMaps'[key]
                           = cachedDomainStorageMaps[key]
        ]_vars

\* A call was served from the domain map cache, for a map that is in the
\* ledger and has no unsaved change.
C35_Witness ==
    /\ last.op = "get"
    /\ last.layer = "cache"
    /\ last.result # NoSlab
    /\ last.result \in DOMAIN ledgerSlabs
    /\ last.result \notin DOMAIN deltas

\* The positions of the log at which computation was reported.
Reports(log) == {i \in DOMAIN log : log[i][1] = "computation"}

\* The commit that returned the log reported computation of kind
\* EncodeValue once, with the given intensity, after the register writes of
\* the layers and of the migrations and before the first slab was written;
\* or not at all when the size is zero.
ReportedOnce(log, size) ==
    IF size = 0 THEN Reports(log) = {}
    ELSE /\ Cardinality(Reports(log)) = 1
         /\ \A i \in Reports(log) :
                /\ log[i][3] = "EncodeValue"
                /\ log[i][4] = size
                /\ \A j \in DOMAIN log :
                       /\ log[j][1] \in {"write", "migrate", "step"} => j < i
                       /\ log[j][1] = "slab" => i < j

\* C36: in commit, after the migrations and before the slab flush,
\* computation of kind EncodeValue is reported exactly once, with intensity
\* equal to the size of the delta buffer without the slabs of the temporary
\* address, when that size is greater than zero, and is not reported when
\* the size is zero.
C36_ComputationReported ==
    \A commitContractUpdatesFlag \in BOOLEAN :
        commit(St, commitContractUpdatesFlag).err = ""
            => ReportedOnce(
                   commit(St, commitContractUpdatesFlag).s.log,
                   SizeOfSlabs(
                       BeforeFlush(St, commitContractUpdatesFlag).deltas,
                       OwnedDeltaKeys(
                           BeforeFlush(St, commitContractUpdatesFlag))))

\* A commit with a migration reported the size of the slabs it then wrote,
\* while a slab of the temporary address stayed in the delta buffer.
C36_Witness ==
    /\ Committed
    /\ Logged(last.log, "migrate")
    /\ Logged(last.log, "slab")
    /\ Cardinality(Reports(last.log)) = 1
    /\ TempSlabID \in DOMAIN deltas

\* A commit with only a slab of the temporary address in the delta buffer
\* reported no computation.
C36_WitnessZero ==
    /\ Committed
    /\ Reports(last.log) = {}
    /\ ~Logged(last.log, "slab")
    /\ TempSlabID \in DOMAIN deltas

(***************************************************************************)
(* The legacy link values                                                  *)
(***************************************************************************)

\* The two CBOR tags reserved for the legacy link values.
LegacyLinkTags == {CBORTagPathLinkValue, CBORTagAccountLinkValue}

\* The tag of the legacy link value of the given kind.
LinkTagOf(kind) ==
    IF kind = "PathLinkValue" THEN CBORTagPathLinkValue
    ELSE CBORTagAccountLinkValue

\* C37, as stated: encoding a legacy link value (PathLinkValue or
\* AccountLinkValue) never emits the two reserved legacy link CBOR tags.
C37_LinkTagsNeverEmitted ==
    \A i \in DOMAIN encoder.buf : encoder.buf[i] \notin LegacyLinkTags

\* C37, amended: encoding a legacy link value (PathLinkValue or
\* AccountLinkValue) emits the reserved legacy link CBOR tag of its kind:
\* what a successful Encode call writes starts with the tag head 0xd8 and
\* the tag number of the kind, and holds no other reserved link tag.
C37_LinkTagEmittedFirst ==
    (last.op = "encode" /\ last.err = "")
        => /\ Len(last.log) >= 3
           /\ last.log[1] = "0xd8"
           /\ last.log[2] = LinkTagOf(last.domain)
           /\ \A i \in DOMAIN last.log :
                  i # 2 => last.log[i] \notin LegacyLinkTags

\* A path link value was encoded after an account link value.
C37_Witness ==
    /\ last.op = "encode"
    /\ last.err = ""
    /\ last.domain = "PathLinkValue"
    /\ Len(last.log) = 7
    /\ encoder.calls = 2
    /\ encoder.buf[2] = CBORTagAccountLinkValue

(***************************************************************************)
(* Scheduling the same address more than once                              *)
(***************************************************************************)

\* C38: within one commit the account migrator is invoked at most once per
\* distinct address, even when the same address was scheduled several
\* times.
C38_MigratedAtMostOnce ==
    last.op = "commit"
        => \A a \in Addresses : Occurrences(MigratedAddresses(last.log), a) <= 1

(***************************************************************************)
(* The cache of the V1 flags                                               *)
(***************************************************************************)

\* The address is in the list of scheduled migrations.
Scheduled(sched, a) == \E i \in DOMAIN sched : sched[i] = a

\* The address is cached with the given V1 flag.
CachedIsV1(cv1, a, isV1) == a \in DOMAIN cv1 /\ cv1[a] = isV1

C39_WitnessStaysV2 ==
    /\ StorageFormatV2Enabled
    /\ last.op = "get"
    /\ last.result # NoSlab
    /\ CachedIsV1(cachedV1Accounts, last.address, FALSE)
    /\ \E d \in Domains :
           /\ d # last.domain
           /\ <<last.address, d>> \in DOMAIN cachedDomainStorageMaps

(***************************************************************************)
(* A failure of the account migrator                                       *)
(***************************************************************************)

\* The V1 flag of the address is cached in t as it is in s.
KeepsFlag(s, t, a) ==
    /\ (a \in DOMAIN t.cv1) = (a \in DOMAIN s.cv1)
    /\ a \in DOMAIN s.cv1 => t.cv1[a] = s.cv1[a]

\* r is what migrateV1AccountsToV2 returns from s when the k-th call of the
\* migrator, for the k-th address of the sorted list, fails.
StopsAtFailure(s, r, sorted, k) ==
    /\ r.err = "migrate"
    /\ \A a \in Addresses :
           a > sorted[k] => Occurrences(MigratedAddresses(r.s.log), a) = 0
    /\ KeepsFlag(s, r.s, sorted[k])
    /\ \A i \in 1..(k - 1) :
           sorted[i] < sorted[k]
               => /\ CachedIsV1(r.s.cv1, sorted[i], FALSE)
                  /\ LookupSlab(r.s.cam, sorted[i]) # NoSlab
    /\ r.s.sched # <<>>

\* C40: if the account migrator fails for a scheduled address,
\* migrateV1AccountsToV2 returns that error immediately: no address greater
\* than the failing one is migrated, the failing address keeps its V1 flag,
\* the addresses smaller than it are already marked V2 with their account
\* maps cached, and the scheduled list is left non-empty.
C40_MigratorFailure ==
    StorageFormatV2Enabled
        => \A failure \in {"migrate1", "migrate2"} :
               MigrateFailIndex([St EXCEPT !.fail = failure])
                       <= Len(scheduledV2Migrations)
                   => StopsAtFailure(
                          St,
                          migrateV1AccountsToV2([St EXCEPT !.fail = failure]),
                          SortAddresses(scheduledV2Migrations),
                          MigrateFailIndex([St EXCEPT !.fail = failure]))

====
